---- MODULE Spec2Model ----
(***************************************************************************)
(* Model of the me-agent backend: the policy store and the policy routes   *)
(* (api/policy.py, core/db.py), the authority check and the audit log      *)
(* (api/authority.py, core/db.py) and the bundle selector (api/agent.py    *)
(* over the static catalog of api/shopify.py).                             *)
(*                                                                         *)
(* Conventions.                                                            *)
(*  - An Optional[T] value is a sequence of length at most one: <<>> is    *)
(*    None and <<v>> is the value v.                                       *)
(*  - Amounts of the authority layer are integers in thousandths of a      *)
(*    dollar (mills), so that a float with more than two decimals and the  *)
(*    rounding done by the ':.2f' format can be told apart.                *)
(*  - Prices and budgets of the bundle selector are in mills as well;       *)
(*    every catalog price is a whole number of cents.                      *)
(*  - The in-memory store of core/db.py is modelled (_db is None): none of *)
(*    its coroutines suspends, so a handler runs as one step.              *)
(***************************************************************************)
EXTENDS Integers, Sequences, FiniteSets, TLC

VARIABLES
    policies,     \* _memory_store["policies"]: user id -> Optional stored policy
    audit_logs,   \* _memory_store["audit_logs"]: user id -> list of events
    clock,        \* what datetime.utcnow() returns
    request,      \* the request being answered
    response,     \* the response returned for it
    agent_store,  \* _memory_store of api/agent.py: meta, memory, sessions
    rec,          \* the recommend call in progress: its position and locals
    fb            \* the feedback call in progress: its position and locals

vars == <<policies, audit_logs, clock, request, response, agent_store, rec, fb>>

----------------------------------------------------------------------------
(* Generic helpers *)

None == <<>>

Some(v) == <<v>>

IsNone(o) == Len(o) = 0

ToSet(s) == {s[i] : i \in DOMAIN s}

InList(x, s) == \E i \in DOMAIN s : s[i] = x

Take(s, n) == SubSeq(s, 1, IF Len(s) < n THEN Len(s) ELSE n)

----------------------------------------------------------------------------
(* str.strip() and str.lower() on the strings the model uses.  A string    *)
(* written with capitals or with surrounding blanks is a different string  *)
(* from its normal form.                                                   *)

Strip(s) ==
    CASE s = " books " -> "books"
      [] s = " office" -> "office"
      [] s = "Electronics " -> "Electronics"
      [] s = " logitech" -> "logitech"
      [] s = " u1 " -> "u1"
      [] s = " IKEA" -> "IKEA"
      [] s = "  " -> ""
      [] s = " lamp " -> "lamp"
      [] s = " Mouse" -> "Mouse"
      [] OTHER -> s

Lower(s) ==
    CASE s = "Books" -> "books"
      [] s = "OFFICE" -> "office"
      [] s = "Office" -> "office"
      [] s = "Electronics" -> "electronics"
      [] s = "Accessories" -> "accessories"
      [] s = "Construction" -> "construction"
      [] s = "Entertainment" -> "entertainment"
      [] s = "Fashion" -> "fashion"
      [] s = "Fitness" -> "fitness"
      [] s = "Grocery" -> "grocery"
      [] s = "Home" -> "home"
      [] s = "Lifestyle" -> "lifestyle"
      [] s = "Smart_home" -> "smart_home"
      [] s = "Wellness" -> "wellness"
      [] s = "Toys" -> "toys"
      [] s = "TechVendor" -> "techvendor"
      [] s = "Wireless Headphones" -> "wireless headphones"
      [] s = "Smartphone Case" -> "smartphone case"
      [] s = "Laptop Stand" -> "laptop stand"
      [] s = "SoundWave" -> "soundwave"
      [] s = "Bluetooth Speaker" -> "bluetooth speaker"
      [] s = "KeyPro" -> "keypro"
      [] s = "Mechanical Keyboard" -> "mechanical keyboard"
      [] s = "Wireless Mouse" -> "wireless mouse"
      [] s = "ChargeIt" -> "chargeit"
      [] s = "USB-C Charging Cable" -> "usb-c charging cable"
      [] s = "FitTech" -> "fittech"
      [] s = "Smartwatch" -> "smartwatch"
      [] s = "Noise Cancelling Earbuds" -> "noise cancelling earbuds"
      [] s = "VisionTech" -> "visiontech"
      [] s = "Webcam 1080p" -> "webcam 1080p"
      [] s = "GreenLife" -> "greenlife"
      [] s = "Reusable Water Bottle" -> "reusable water bottle"
      [] s = "CozyCorner" -> "cozycorner"
      [] s = "Aromatic Soy Candle" -> "aromatic soy candle"
      [] s = "UrbanCarry" -> "urbancarry"
      [] s = "Minimalist Backpack" -> "minimalist backpack"
      [] s = "Plantify" -> "plantify"
      [] s = "Desk Plant (Succulent)" -> "desk plant (succulent)"
      [] s = "NoodleHouse" -> "noodlehouse"
      [] s = "Instant Ramen Variety Pack" -> "instant ramen variety pack"
      [] s = "ZenMotion" -> "zenmotion"
      [] s = "Yoga Mat" -> "yoga mat"
      [] s = "PlayForge" -> "playforge"
      [] s = "Board Game: Monopoli" -> "board game: monopoli"
      [] s = "TimelessCo" -> "timelessco"
      [] s = "Vintage-Style Wall Clock" -> "vintage-style wall clock"
      [] s = "KitchenReads" -> "kitchenreads"
      [] s = "Cookbook: 30-Minute Meals" -> "cookbook: 30-minute meals"
      [] s = "RestEasy" -> "resteasy"
      [] s = "Noise-Reducing Sleep Mask" -> "noise-reducing sleep mask"
      [] s = "Apple" -> "apple"
      [] s = "Apple Magic Trackpad" -> "apple magic trackpad"
      [] s = "Apple Magic Keyboard" -> "apple magic keyboard"
      [] s = "Logitech" -> "logitech"
      [] s = "Logitech MX Master 3S" -> "logitech mx master 3s"
      [] s = "Logitech MX Keys Mini" -> "logitech mx keys mini"
      [] s = "Logitech Lift Vertical Mouse" -> "logitech lift vertical mouse"
      [] s = "Keychron" -> "keychron"
      [] s = "Keychron K2 (Non-RGB)" -> "keychron k2 (non-rgb)"
      [] s = "Unknown" -> "unknown"
      [] s = "Generic RGB Mechanical Keyboard" -> "generic rgb mechanical keyboard"
      [] s = "Dell" -> "dell"
      [] s = "Dell UltraSharp 27\" Monitor" -> "dell ultrasharp 27\" monitor"
      [] s = "LG" -> "lg"
      [] s = "LG 27\" 4K Monitor" -> "lg 27\" 4k monitor"
      [] s = "Samsung" -> "samsung"
      [] s = "Samsung Curved Gaming Monitor" -> "samsung curved gaming monitor"
      [] s = "Fully" -> "fully"
      [] s = "Fully Jarvis Standing Desk" -> "fully jarvis standing desk"
      [] s = "IKEA" -> "ikea"
      [] s = "IKEA BEKANT Desk" -> "ikea bekant desk"
      [] s = "Herman Miller" -> "herman miller"
      [] s = "Herman Miller Aeron Chair" -> "herman miller aeron chair"
      [] s = "Budget Office Chair (No Name)" -> "budget office chair (no name)"
      [] s = "Foot Rest Under Desk" -> "foot rest under desk"
      [] s = "Bose" -> "bose"
      [] s = "Bose QuietComfort Headphones" -> "bose quietcomfort headphones"
      [] s = "Sony" -> "sony"
      [] s = "Sony WH-1000XM5 Headphones" -> "sony wh-1000xm5 headphones"
      [] s = "Anker" -> "anker"
      [] s = "Anker PowerConf Speakerphone" -> "anker powerconf speakerphone"
      [] s = "Generic RGB Gaming Headset" -> "generic rgb gaming headset"
      [] s = "BenQ" -> "benq"
      [] s = "BenQ ScreenBar Monitor Light" -> "benq screenbar monitor light"
      [] s = "LED Strip Lights (RGB)" -> "led strip lights (rgb)"
      [] s = "Cable Management Kit" -> "cable management kit"
      [] s = "Anker 65W USB-C Charger" -> "anker 65w usb-c charger"
      [] s = "Belkin" -> "belkin"
      [] s = "Belkin MagSafe Charger" -> "belkin magsafe charger"
      [] s = "Generic Fast Charger (RGB)" -> "generic fast charger (rgb)"
      [] s = "Philips" -> "philips"
      [] s = "Philips Hue Starter Kit" -> "philips hue starter kit"
      [] s = "Apple HomePod mini" -> "apple homepod mini"
      [] s = "Google" -> "google"
      [] s = "Google Nest Thermostat" -> "google nest thermostat"
      [] s = "Ring" -> "ring"
      [] s = "Ring Video Doorbell" -> "ring video doorbell"
      [] s = "DeWalt" -> "dewalt"
      [] s = "DeWalt 20V Drill Driver Kit" -> "dewalt 20v drill driver kit"
      [] s = "Milwaukee" -> "milwaukee"
      [] s = "Milwaukee Measuring Tape" -> "milwaukee measuring tape"
      [] s = "Stanley" -> "stanley"
      [] s = "Hammer" -> "hammer"
      [] s = "Makita" -> "makita"
      [] s = "Circular Saw" -> "circular saw"
      [] s = "3M" -> "3m"
      [] s = "Safety Glasses" -> "safety glasses"
      [] s = "Generic" -> "generic"
      [] s = "Drywall Sheets (Pack)" -> "drywall sheets (pack)"
      [] s = "Behr" -> "behr"
      [] s = "Interior Paint (Gallon)" -> "interior paint (gallon)"
      [] s = "Husky" -> "husky"
      [] s = "Toolbox" -> "toolbox"
      [] s = "Samsung RGB Gaming Mouse" -> "samsung rgb gaming mouse"
      [] s = "TechGear" -> "techgear"
      [] s = "DenimCo" -> "denimco"
      [] s = "FitGear" -> "fitgear"
      [] s = "CleanAir" -> "cleanair"
      [] s = "RGB" -> "rgb"
      [] s = "Desk" -> "desk"
      [] s = "Lamp" -> "lamp"
      [] s = "Mouse" -> "mouse"
      [] OTHER -> s

----------------------------------------------------------------------------
(* core/db.py: policy storage *)

DEFAULT_DEMO_USER == "demo-user-1"

DefaultMaxSpend == 150000

DEFAULT_POLICY ==
    [maxSpend |-> DefaultMaxSpend,
     allowedCategories |-> <<"office", "electronics">>,
     agentEnabled |-> TRUE,
     requireConfirm |-> TRUE]

get_user_id(meagent_user) ==
    IF IsNone(meagent_user) \/ meagent_user[1] = ""
    THEN DEFAULT_DEMO_USER
    ELSE meagent_user[1]

\* the stored policy is never read: every caller gets the defaults
get_policy_always_default(store, user_id) ==
    DEFAULT_POLICY

get_policy(store, user_id) ==
    IF IsNone(store[user_id]) THEN DEFAULT_POLICY ELSE store[user_id][1]

save_policy(store, user_id, policy) ==
    [store EXCEPT ![user_id] =
        Some([maxSpend |-> policy.maxSpend,
              allowedCategories |-> policy.allowedCategories,
              agentEnabled |-> policy.agentEnabled,
              requireConfirm |-> policy.requireConfirm])]

----------------------------------------------------------------------------
(* schemas/policy.py and api/policy.py *)

ALL_ALLOWED_CATEGORIES ==
    <<"office", "electronics", "clothing", "home", "sports", "books",
      "beauty", "food", "accessories", "lifestyle", "fashion", "grocery",
      "fitness", "entertainment", "wellness", "smart_home", "construction">>

LEGACY_CATEGORY_SETS ==
    {{"office"},
     {"office", "electronics"},
     {"office", "electronics", "clothing", "home", "sports", "books",
      "beauty", "food"}}

\* every list is taken for a legacy one
should_expand_categories_always(categories) ==
    TRUE

should_expand_categories(categories) ==
    IF Len(categories) = 0 THEN TRUE
    ELSE ToSet(categories) \in LEGACY_CATEGORY_SETS

RECURSIVE normalize_list(_)
normalize_list(categories) ==
    IF Len(categories) = 0 THEN <<>>
    ELSE LET cat == Head(categories)
             value == Lower(Strip(cat))
             rest == normalize_list(Tail(categories))
         IN IF cat = "" \/ value = "" THEN rest ELSE <<value>> \o rest

\* categories: Optional[list[str]]
normalize_categories(categories) ==
    IF IsNone(categories) \/ Len(categories[1]) = 0 THEN <<>>
    ELSE normalize_list(categories[1])

\* without the "or list(ALL_ALLOWED_CATEGORIES)" fallback
OrAll_keeps_empty(categories) ==
    categories

OrAll(categories) ==
    IF Len(categories) = 0 THEN ALL_ALLOWED_CATEGORIES ELSE categories

\* AgentPolicy(...): the four validated fields, lists copied by value
AgentPolicy(maxSpend, allowedCategories, agentEnabled, requireConfirm) ==
    [maxSpend |-> maxSpend,
     allowedCategories |-> allowedCategories,
     agentEnabled |-> agentEnabled,
     requireConfirm |-> requireConfirm]

----------------------------------------------------------------------------
(* core/db.py: audit log storage *)

\* only BLOCK decisions are logged
add_audit_event_blocks_only(logs, user_id, event) ==
    IF event.decision = "ALLOW" THEN logs
    ELSE [logs EXCEPT ![user_id] =
            Append(@, [id |-> event.id,
                       userId |-> user_id,
                       ts |-> event.ts,
                       actor |-> event.actor,
                       action |-> event.action,
                       decision |-> event.decision,
                       reason |-> event.reason,
                       policySnapshot |-> event.policySnapshot,
                       meta |-> event.meta])]

add_audit_event(logs, user_id, event) ==
    [logs EXCEPT ![user_id] =
        Append(@, [id |-> event.id,
                   userId |-> user_id,
                   ts |-> event.ts,
                   actor |-> event.actor,
                   action |-> event.action,
                   decision |-> event.decision,
                   reason |-> event.reason,
                   policySnapshot |-> event.policySnapshot,
                   meta |-> event.meta])]

\* sorted(logs, key=ts, reverse=True): descending by ts and stable, so that
\* events of equal ts keep the order of the list.  The ts strings are
\* isoformat() texts of one format, whose text order is the order of the
\* clock readings; a ts is modelled by its reading.
RECURSIVE sorted_reverse(_)
sorted_reverse(logs) ==
    IF Len(logs) = 0 THEN <<>>
    ELSE LET init == sorted_reverse(SubSeq(logs, 1, Len(logs) - 1))
             x == logs[Len(logs)]
             k == Cardinality({i \in DOMAIN init : init[i].ts >= x.ts})
         IN SubSeq(init, 1, k) \o <<x>> \o SubSeq(init, k + 1, Len(init))

get_audit_logs(logs, user_id, limit) ==
    Take(sorted_reverse(logs[user_id]), limit)

----------------------------------------------------------------------------
(* schemas/audit.py and api/audit.py *)

DefaultLimit == 50

MinLimit == 1

MaxLimit == 200

AuditEvent(id, ts, actor, action, decision, reason, policySnapshot, meta) ==
    [id |-> id, ts |-> ts, actor |-> actor, action |-> action,
     decision |-> decision, reason |-> reason,
     policySnapshot |-> policySnapshot, meta |-> meta]

AuditEventCreate(actor, action, decision, reason, meta) ==
    [actor |-> actor, action |-> action, decision |-> decision,
     reason |-> reason, meta |-> meta]

\* AuditEventCreate: actor and decision are Literal fields
AuditEventCreateValid(event_create) ==
    /\ event_create.actor \in {"user", "agent"}
    /\ event_create.decision \in {"ALLOW", "BLOCK"}

\* AgentPolicy(**policy_snapshot) and AuditEvent(...) validate: an event
\* that fails is skipped by get_audit_log
well_formed(log) ==
    /\ log.policySnapshot.maxSpend >= 0
    /\ log.actor \in {"user", "agent"}
    /\ log.decision \in {"ALLOW", "BLOCK"}

\* the AuditEvent built from a stored event
audit_event_of(log) ==
    AuditEvent(log.id, log.ts, log.actor, log.action, log.decision, log.reason,
               AgentPolicy(log.policySnapshot.maxSpend,
                           log.policySnapshot.allowedCategories,
                           log.policySnapshot.agentEnabled,
                           log.policySnapshot.requireConfirm),
               log.meta)

\* the events list of get_audit_log
audit_events(logs) ==
    LET kept == SelectSeq(logs, well_formed)
    IN [i \in DOMAIN kept |-> audit_event_of(kept[i])]

----------------------------------------------------------------------------
(* api/authority.py: the rules of check_authority.                         *)
(* A reason string is the record of the f-string that built it: the        *)
(* template, and the values substituted into it in order (formatted        *)
(* amounts, names, the joined allowed categories).                         *)

\* f"{x:.2f}" of an amount in mills: the nearest cent, a tie going to the
\* even cent; the result stands for the text "<whole>.<frac as 2 digits>"
Format2(mills) ==
    LET q == mills \div 10
        r == mills % 10
        cents == IF r < 5 THEN q
                 ELSE IF r > 5 THEN q + 1
                 ELSE IF q % 2 = 0 THEN q ELSE q + 1
    IN [whole |-> cents \div 100, frac |-> cents % 100]

Reason(template, amounts, names, allowed) ==
    [template |-> template, amounts |-> amounts, names |-> names,
     allowed |-> allowed]

DefaultReason == Reason("Action permitted by policy", <<>>, <<>>, <<>>)

DisabledReason ==
    Reason("Agent is disabled. Enable it in your policy settings to allow autonomous actions.",
           <<>>, <<>>, <<>>)

BudgetReason(cartTotal, maxSpend) ==
    Reason("Cart total ${0} exceeds your spending limit of ${1}. Reduce items or increase your limit.",
           <<Format2(cartTotal), Format2(maxSpend)>>, <<>>, <<>>)

\* the last unauthorized category named instead of the first
CategoryReason_last(unauthorized, allowedCategories) ==
    Reason("Category '{0}' is not in your allowed categories: {1}. Update your policy to include it.",
           <<>>, <<unauthorized[Len(unauthorized)]>>, allowedCategories)

CategoryReason(unauthorized, allowedCategories) ==
    Reason("Category '{0}' is not in your allowed categories: {1}. Update your policy to include it.",
           <<>>, <<unauthorized[1]>>, allowedCategories)

ItemsReason(blocked_items, allowedCategories) ==
    LET first3 == Take(blocked_items, 3)
    IN Reason("Items from unauthorized categories blocked: {0}. Allowed categories: {1}.",
              <<>>, [i \in DOMAIN first3 |-> first3[i].title], allowedCategories)

ConfirmReason ==
    Reason("Checkout requires your explicit confirmation. Click the checkout button to proceed.",
           <<>>, <<>>, <<>>)

\* rule 1 left out
AgentDisabled_ignored(policy) == FALSE

\* Rule 1
AgentDisabled(policy) == ~policy.agentEnabled

\* the cart total compared with the default limit, not the user's
OverBudget_default_limit(policy, req) ==
    ~IsNone(req.cartTotal) /\ req.cartTotal[1] > DefaultMaxSpend

\* Rule 2
OverBudget(policy, req) ==
    ~IsNone(req.cartTotal) /\ req.cartTotal[1] > policy.maxSpend

\* "request.categories" / "request.items" as a condition: not None, not empty
Truthy(optList) == ~IsNone(optList) /\ Len(optList[1]) > 0

\* Rule 3
Unauthorized(policy, categories) ==
    SelectSeq(categories, LAMBDA cat : ~InList(cat, policy.allowedCategories))

\* only the three items named in the reason are returned
BlockedItems_first3(policy, items) ==
    Take(SelectSeq(items, LAMBDA item : ~InList(item.category, policy.allowedCategories)), 3)

\* Rule 3b
BlockedItems(policy, items) ==
    SelectSeq(items, LAMBDA item : ~InList(item.category, policy.allowedCategories))

Verdict(decision, reason, blocked_items) ==
    [decision |-> decision, reason |-> reason, blocked_items |-> blocked_items]

\* the category rule tested before the budget rule
RuleChain_categories_first(policy, req) ==
    IF AgentDisabled(policy)
    THEN Verdict("BLOCK", DisabledReason, <<>>)
    ELSE IF Truthy(req.categories) /\ Len(Unauthorized(policy, req.categories[1])) > 0
    THEN Verdict("BLOCK", CategoryReason(Unauthorized(policy, req.categories[1]),
                                         policy.allowedCategories), <<>>)
    ELSE IF OverBudget(policy, req)
    THEN Verdict("BLOCK", BudgetReason(req.cartTotal[1], policy.maxSpend), <<>>)
    ELSE IF ~Truthy(req.categories) /\ Truthy(req.items)
            /\ Len(BlockedItems(policy, req.items[1])) > 0
    THEN Verdict("BLOCK", ItemsReason(BlockedItems(policy, req.items[1]),
                                      policy.allowedCategories),
                 BlockedItems(policy, req.items[1]))
    ELSE Verdict("ALLOW", DefaultReason, <<>>)

\* the if / elif chain of rules 1 to 3b
RuleChain(policy, req) ==
    IF AgentDisabled(policy)
    THEN Verdict("BLOCK", DisabledReason, <<>>)
    ELSE IF OverBudget(policy, req)
    THEN Verdict("BLOCK", BudgetReason(req.cartTotal[1], policy.maxSpend), <<>>)
    ELSE IF Truthy(req.categories)
    THEN LET unauthorized == Unauthorized(policy, req.categories[1])
         IN IF Len(unauthorized) > 0
            THEN Verdict("BLOCK", CategoryReason(unauthorized, policy.allowedCategories), <<>>)
            ELSE Verdict("ALLOW", DefaultReason, <<>>)
    ELSE IF Truthy(req.items)
    THEN LET blocked_items == BlockedItems(policy, req.items[1])
         IN IF Len(blocked_items) > 0
            THEN Verdict("BLOCK", ItemsReason(blocked_items, policy.allowedCategories),
                         blocked_items)
            ELSE Verdict("ALLOW", DefaultReason, <<>>)
    ELSE Verdict("ALLOW", DefaultReason, <<>>)

\* the confirmation rule tests another action name
NeedsConfirm_wrong_action(decision, policy, req) ==
    decision = "ALLOW" /\ policy.requireConfirm /\ req.action = "cartCreate"

\* Rule 4
NeedsConfirm(decision, policy, req) ==
    decision = "ALLOW" /\ policy.requireConfirm /\ req.action = "checkoutStart"

Decide(policy, req) ==
    LET chain == RuleChain(policy, req)
    IN IF NeedsConfirm(chain.decision, policy, req)
       THEN Verdict("BLOCK", ConfirmReason, chain.blocked_items)
       ELSE chain

\* the snapshot taken of a default AgentPolicy() instead of the user's policy
model_dump_of_defaults(policy) ==
    [maxSpend |-> DefaultMaxSpend,
     allowedCategories |-> ALL_ALLOWED_CATEGORIES,
     agentEnabled |-> TRUE,
     requireConfirm |-> TRUE]

\* policy.model_dump(): a new dict holding the values of the four fields
model_dump(policy) ==
    [maxSpend |-> policy.maxSpend,
     allowedCategories |-> policy.allowedCategories,
     agentEnabled |-> policy.agentEnabled,
     requireConfirm |-> policy.requireConfirm]

AuditMeta(req) ==
    [cartTotal |-> req.cartTotal,
     categories |-> req.categories,
     itemCount |-> IF Truthy(req.items) THEN Len(req.items[1]) ELSE 0]

----------------------------------------------------------------------------
(* api/shopify.py: the static catalog and the purchase history.            *)
(* A product is the record of the attributes its class declares and        *)
(* generate_bundle or the catalog routes read: id, title, vendor,          *)
(* productType, variants[0].price and inStock.  The class declares no      *)
(* stockQuantity attribute.  An id is the number that ends the gid: the    *)
(* ids share one prefix and have four digits, so the order of the id       *)
(* strings is the order of these numbers.  Prices and amounts of the       *)
(* bundle selector are in mills, like the amounts of the authority layer.  *)

Product(id, title, vendor, productType, price, inStock) ==
    [id |-> id, title |-> title, vendor |-> vendor, productType |-> productType,
     price |-> price, inStock |-> inStock]

PRODUCTS ==
    <<Product(3001, "Wireless Headphones", "TechVendor", "Electronics", 99990, TRUE),
      Product(3002, "Smartphone Case", "TechVendor", "Accessories", 19990, TRUE),
      Product(3003, "Laptop Stand", "TechVendor", "Accessories", 49990, TRUE),
      Product(3004, "Bluetooth Speaker", "SoundWave", "Electronics", 79990, TRUE),
      Product(3005, "Mechanical Keyboard", "KeyPro", "Electronics", 129990, FALSE),
      Product(3006, "Wireless Mouse", "KeyPro", "Accessories", 39990, TRUE),
      Product(3007, "USB-C Charging Cable", "ChargeIt", "Accessories", 14990, TRUE),
      Product(3008, "Smartwatch", "FitTech", "Electronics", 199990, TRUE),
      Product(3009, "Noise Cancelling Earbuds", "SoundWave", "Electronics", 149990, FALSE),
      Product(3010, "Webcam 1080p", "VisionTech", "Electronics", 59990, TRUE),
      Product(3011, "Reusable Water Bottle", "GreenLife", "Lifestyle", 24990, TRUE),
      Product(3012, "Aromatic Soy Candle", "CozyCorner", "Home", 18500, TRUE),
      Product(3013, "Minimalist Backpack", "UrbanCarry", "Fashion", 89990, FALSE),
      Product(3014, "Desk Plant (Succulent)", "Plantify", "Home", 15990, TRUE),
      Product(3015, "Instant Ramen Variety Pack", "NoodleHouse", "Grocery", 9990, TRUE),
      Product(3016, "Yoga Mat", "ZenMotion", "Fitness", 44990, TRUE),
      Product(3017, "Board Game: Monopoli", "PlayForge", "Entertainment", 54990, TRUE),
      Product(3018, "Vintage-Style Wall Clock", "TimelessCo", "Home", 67000, FALSE),
      Product(3019, "Cookbook: 30-Minute Meals", "KitchenReads", "Books", 34950, TRUE),
      Product(3020, "Noise-Reducing Sleep Mask", "RestEasy", "Wellness", 22990, TRUE),
      Product(3101, "Apple Magic Trackpad", "Apple", "Office", 169000, TRUE),
      Product(3102, "Apple Magic Keyboard", "Apple", "Office", 99000, TRUE),
      Product(3103, "Logitech MX Master 3S", "Logitech", "Office", 99990, TRUE),
      Product(3104, "Logitech MX Keys Mini", "Logitech", "Office", 99990, TRUE),
      Product(3105, "Logitech Lift Vertical Mouse", "Logitech", "Office", 69990, TRUE),
      Product(3106, "Keychron K2 (Non-RGB)", "Keychron", "Office", 89990, TRUE),
      Product(3107, "Generic RGB Mechanical Keyboard", "Unknown", "Office", 89990, TRUE),
      Product(3108, "Dell UltraSharp 27\" Monitor", "Dell", "Office", 329000, TRUE),
      Product(3109, "LG 27\" 4K Monitor", "LG", "Office", 299000, TRUE),
      Product(3110, "Samsung Curved Gaming Monitor", "Samsung", "Office", 279000, TRUE),
      Product(3111, "Fully Jarvis Standing Desk", "Fully", "Office", 499000, TRUE),
      Product(3112, "IKEA BEKANT Desk", "IKEA", "Office", 249000, TRUE),
      Product(3113, "Herman Miller Aeron Chair", "Herman Miller", "Office", 1199000, TRUE),
      Product(3114, "Budget Office Chair (No Name)", "Unknown", "Office", 89000, TRUE),
      Product(3115, "Foot Rest Under Desk", "Logitech", "Office", 29990, TRUE),
      Product(3116, "Bose QuietComfort Headphones", "Bose", "Office", 249000, TRUE),
      Product(3117, "Sony WH-1000XM5 Headphones", "Sony", "Office", 329000, TRUE),
      Product(3118, "Anker PowerConf Speakerphone", "Anker", "Office", 119000, TRUE),
      Product(3119, "Generic RGB Gaming Headset", "Unknown", "Office", 49990, TRUE),
      Product(3120, "BenQ ScreenBar Monitor Light", "BenQ", "Office", 129000, TRUE),
      Product(3121, "LED Strip Lights (RGB)", "Unknown", "Office", 19990, TRUE),
      Product(3122, "Cable Management Kit", "IKEA", "Office", 24990, TRUE),
      Product(3124, "Webcam 1080p", "Logitech", "Office", 59990, TRUE),
      Product(3125, "Anker 65W USB-C Charger", "Anker", "Office", 49990, TRUE),
      Product(3126, "Belkin MagSafe Charger", "Belkin", "Office", 39990, TRUE),
      Product(3127, "Generic Fast Charger (RGB)", "Unknown", "Office", 19990, TRUE),
      Product(3128, "Philips Hue Starter Kit", "Philips", "Smart_home", 199000, TRUE),
      Product(3129, "Apple HomePod mini", "Apple", "Smart_home", 99000, TRUE),
      Product(3130, "Google Nest Thermostat", "Google", "Smart_home", 129000, TRUE),
      Product(3131, "Ring Video Doorbell", "Ring", "Smart_home", 99000, TRUE),
      Product(3132, "DeWalt 20V Drill Driver Kit", "DeWalt", "Construction", 199000, TRUE),
      Product(3133, "Milwaukee Measuring Tape", "Milwaukee", "Construction", 19990, TRUE),
      Product(3134, "Hammer", "Stanley", "Construction", 14990, TRUE),
      Product(3135, "Circular Saw", "Makita", "Construction", 149000, TRUE),
      Product(3136, "Safety Glasses", "3M", "Construction", 9990, TRUE),
      Product(3137, "Drywall Sheets (Pack)", "Generic", "Construction", 79000, TRUE),
      Product(3138, "Interior Paint (Gallon)", "Behr", "Construction", 39990, TRUE),
      Product(3139, "Toolbox", "Husky", "Construction", 29990, TRUE),
      Product(3140, "Samsung RGB Gaming Mouse", "Samsung", "Office", 59990, TRUE)>>

PurchaseHistoryItem(productId, vendor) == [productId |-> productId, vendor |-> vendor]

PURCHASE_HISTORY ==
    [alex |-> <<PurchaseHistoryItem(1101, "TechGear"),
                PurchaseHistoryItem(1202, "DenimCo")>>,
     jamie |-> <<PurchaseHistoryItem(1401, "FitGear"),
                 PurchaseHistoryItem(1302, "CleanAir")>>]

----------------------------------------------------------------------------
(* api/agent.py: the bundle selector *)

\* _normalize(s): (s or "").strip().lower()
normalize(s) == Lower(Strip(s))

\* 'sub in s' for the strings the model uses
Contains(s, sub) ==
    CASE sub = "" -> TRUE
      [] sub = "apple" ->
           s \in {"apple",
                  "apple homepod mini",
                  "apple magic keyboard",
                  "apple magic trackpad"}
      [] sub = "logitech" ->
           s \in {"logitech",
                  "logitech lift vertical mouse",
                  "logitech mx keys mini",
                  "logitech mx master 3s"}
      [] sub = "rgb" ->
           s \in {"generic fast charger (rgb)",
                  "generic rgb gaming headset",
                  "generic rgb mechanical keyboard",
                  "keychron k2 (non-rgb)",
                  "led strip lights (rgb)",
                  "rgb",
                  "samsung rgb gaming mouse"}
      [] OTHER -> s = sub

\* hasattr(obj, name)
HasAttr(obj, name) == name \in DOMAIN obj

\* round(x, 2) of an amount in mills: the nearest cent, a tie going to the
\* even cent
round2(mills) ==
    LET f == Format2(mills) IN (f.whole * 100 + f.frac) * 10

\* cart_quantities.get(product_id, 0), cart_quantities being the dict
\* {item.id: item.qty for item in cartItems}: the last entry of an id wins
cart_quantity(cartItems, product_id) ==
    LET at == {i \in DOMAIN cartItems : cartItems[i].id = product_id}
    IN IF at = {} THEN 0
       ELSE cartItems[CHOOSE i \in at : \A j \in at : j <= i].qty

\* max((product.stockQuantity or 0) - reserved, 0); reads product.stockQuantity
remaining_stock(product, cartItems) ==
    LET stock == IF IsNone(product.stockQuantity) THEN 0 ELSE product.stockQuantity[1]
        left == stock - cart_quantity(cartItems, product.id)
    IN IF left > 0 THEN left ELSE 0

allowed_category_set(payload) == {normalize(c) : c \in ToSet(payload.allowedCategories)}

category_allowed(product, payload) ==
    normalize(product.productType) \in allowed_category_set(payload)

\* The filter evaluates remaining_stock(p) for each product whose type is
\* allowed ('and' skips its right side otherwise); reading an attribute the
\* object does not have raises AttributeError, which nothing catches.
filter_raises(catalog, payload) ==
    \E i \in DOMAIN catalog :
        /\ category_allowed(catalog[i], payload)
        /\ ~HasAttr(catalog[i], "stockQuantity")

available(catalog, payload) ==
    SelectSeq(catalog,
              LAMBDA p : /\ category_allowed(p, payload)
                         /\ remaining_stock(p, payload.cartItems) > 0)

brand_prefs(payload) == {normalize(b) : b \in ToSet(payload.brandPreferences)}

\* PURCHASE_HISTORY.get(payload.personaId or "alex", [])
past_purchases(payload) ==
    LET persona_id == IF IsNone(payload.personaId) \/ payload.personaId[1] = ""
                      THEN "alex" ELSE payload.personaId[1]
    IN IF persona_id \in DOMAIN PURCHASE_HISTORY THEN PURCHASE_HISTORY[persona_id]
       ELSE <<>>

past_vendors(payload) == {normalize(p.vendor) : p \in ToSet(past_purchases(payload))}

past_products(payload) == {p.productId : p \in ToSet(past_purchases(payload))}

is_brand_pref(product, payload) ==
    LET vendor_norm == normalize(product.vendor)
    IN \/ vendor_norm \in brand_prefs(payload)
       \/ \E pref \in brand_prefs(payload) :
              \/ Contains(vendor_norm, pref)
              \/ Contains(normalize(product.title), pref)

is_past_brand(product, payload) == normalize(product.vendor) \in past_vendors(payload)

is_past_item(product, payload) == product.id \in past_products(payload)

\* the sort key (-score, price, id)
score_product(product, payload) ==
    LET score == (IF is_brand_pref(product, payload) THEN 3 ELSE 0)
                 + (IF is_past_brand(product, payload) THEN 2 ELSE 0)
                 + (IF is_past_item(product, payload) THEN 1 ELSE 0)
    IN <<0 - score, product.price, product.id>>

price_key(product) == <<product.price, product.id>>

\* tuple comparison a < b of two keys of the same length
RECURSIVE KeyLess(_, _)
KeyLess(a, b) ==
    IF a = <<>> \/ b = <<>> THEN FALSE
    ELSE IF Head(a) # Head(b) THEN Head(a) < Head(b)
    ELSE KeyLess(Tail(a), Tail(b))

\* sorted(seq, key=...): keys[i] is the key of seq[i]; the sort is stable.
\* The list, its keys and the ranks are bound once each.
sorted(seq, keys) ==
    LET rank(s, k) == [i \in DOMAIN s |->
                          1 + Cardinality({j \in DOMAIN s :
                                              \/ KeyLess(k[j], k[i])
                                              \/ k[j] = k[i] /\ j < i})]
    IN CHOOSE result \in
           {[r \in DOMAIN s |-> s[CHOOSE i \in DOMAIN s : at[i] = r]] :
               <<s, at>> \in {<<a[1], rank(a[1], a[2])>> : a \in {<<seq, keys>>}}} : TRUE

RECURSIVE add_tags(_, _)
add_tags(tags, new) ==
    IF new = <<>> THEN tags
    ELSE add_tags(IF Head(new) = "" \/ InList(Head(new), tags) THEN tags
                  ELSE Append(tags, Head(new)),
                  Tail(new))

build_reason_tags(base_tags, brand_pref, past_brand, past_item) ==
    add_tags(add_tags(<<>>, base_tags),
             (IF brand_pref THEN <<"Preferred brand">> ELSE <<>>)
             \o (IF past_brand THEN <<"Previously purchased brand">> ELSE <<>>)
             \o (IF past_item THEN <<"Previously purchased item">> ELSE <<>>))

\* BundleItem(...): reads product.stockQuantity again; imageUrl, a copy of
\* product.images[0], is left out
BundleItem(product, reason_tags) ==
    [id |-> product.id,
     title |-> product.title,
     price |-> product.price,
     category |-> product.productType,
     merchant |-> product.vendor,
     reasonTags |-> reason_tags,
     qty |-> 1,
     stockQuantity |-> product.stockQuantity]

\* selected is the pair of selected_items and subtotal
add_product_credits(selected, product, payload) ==
    IF selected.subtotal + product.price > payload.maxSpend THEN selected
    ELSE [items |-> Append(selected.items,
                           BundleItem(product,
                                      build_reason_tags(
                                          <<"Matches category", "Within budget">>,
                                          is_brand_pref(product, payload),
                                          is_past_brand(product, payload),
                                          is_past_item(product, payload)))),
          subtotal |-> selected.subtotal - product.price]

add_product(selected, product, payload) ==
    IF selected.subtotal + product.price > payload.maxSpend THEN selected
    ELSE [items |-> Append(selected.items,
                           BundleItem(product,
                                      build_reason_tags(
                                          <<"Matches category", "Within budget">>,
                                          is_brand_pref(product, payload),
                                          is_past_brand(product, payload),
                                          is_past_item(product, payload)))),
          subtotal |-> round2(selected.subtotal + product.price)]

\* for product in sorted_candidates: stop at 6 items
RECURSIVE first_pass(_, _, _)
first_pass(selected, candidates, payload) ==
    IF candidates = <<>> \/ Len(selected.items) >= 6 THEN selected
    ELSE first_pass(add_product(selected, Head(candidates), payload),
                    Tail(candidates), payload)

\* for product in sorted_by_price: stop at 3 items, skip a selected product
RECURSIVE second_pass(_, _, _)
second_pass(selected, candidates, payload) ==
    IF candidates = <<>> \/ Len(selected.items) >= 3 THEN selected
    ELSE IF \E i \in DOMAIN selected.items :
                selected.items[i].id = Head(candidates).id
         THEN second_pass(selected, Tail(candidates), payload)
         ELSE second_pass(add_product(selected, Head(candidates), payload),
                          Tail(candidates), payload)

BundleResult(items, subtotal) ==
    [raised |-> "", items |-> items, subtotal |-> subtotal, currency |-> "USD"]

Raised(exception) == [raised |-> exception]

select_bundle(avail, payload) ==
    LET sorted_candidates ==
            sorted(avail, [i \in DOMAIN avail |-> score_product(avail[i], payload)])
        sorted_by_price ==
            sorted(avail, [i \in DOMAIN avail |-> price_key(avail[i])])
        first == first_pass([items |-> <<>>, subtotal |-> 0], sorted_candidates,
                            payload)
        final == IF Len(first.items) < 3
                 THEN second_pass(first, sorted_by_price, payload)
                 ELSE first
    IN BundleResult(final.items, final.subtotal)

\* the body of the route over a catalog: the result, or the exception raised
generate_bundle(catalog, payload) ==
    IF ~payload.agentEnabled THEN BundleResult(<<>>, 0)
    ELSE IF filter_raises(catalog, payload) THEN Raised("AttributeError")
    ELSE select_bundle(available(catalog, payload), payload)

----------------------------------------------------------------------------
(* api/agent.py: the recommend orchestrator.                               *)
(* The in-memory store of api/agent.py is modelled (_db is None).  A value *)
(* of the JSON text the reasoner answers with is a record tagged by its    *)
(* type: [t |-> "str", v |-> s], [t |-> "num", v |-> n] or [t |-> "null"]; *)
(* numbers of a cart are amounts in mills.                                 *)

\* class Product of api/agent.py: name, price, brand, tags
InventoryProduct(name, price, brand, tags) ==
    [name |-> name, price |-> price, brand |-> brand, tags |-> tags]

\* round(n / d) for n >= 0 and d > 0, a tie going to the even neighbour
RoundDiv(n, d) ==
    LET q == n \div d
        r == n % d
    IN IF 2 * r < d THEN q
       ELSE IF 2 * r > d THEN q + 1
       ELSE IF q % 2 = 0 THEN q ELSE q + 1

\* weights in thousandths
DefaultWeights == [ecosystem_fit |-> 400, design |-> 300, price |-> 200]

\* DEFAULT_POLICY of api/agent.py, the memory of a user never seen before;
\* the sorted lists of distinct strings are sets
AGENT_DEFAULT_POLICY ==
    [preferred_brands |-> {"Apple", "Bose", "Logitech"},
     preferred_tags |-> {},
     kept_items |-> <<>>,
     rejected_items |-> <<>>,
     max_cart |-> 500000,
     rejection_patterns |-> <<>>,
     weights |-> DefaultWeights]

default_memory(max_total) == [AGENT_DEFAULT_POLICY EXCEPT !.max_cart = max_total]

\* 422 when neither user_id nor userId holds a non-blank string
user_id_missing(req) ==
    LET uid == IF ~IsNone(req.user_id) /\ req.user_id[1] # "" THEN req.user_id
               ELSE req.userId
    IN IsNone(uid) \/ uid[1] = "" \/ Strip(uid[1]) = ""

normalize_user_id(req) ==
    LET uid == IF ~IsNone(req.user_id) /\ req.user_id[1] # "" THEN req.user_id
               ELSE req.userId
    IN Strip(uid[1])

normalize_budget(req) ==
    IF ~IsNone(req.maxSpend) THEN req.maxSpend[1]
    ELSE IF ~IsNone(req.max_total) THEN req.max_total[1]
    ELSE 500000

\* _normalize_list(vals): the normalized values that are not empty, in order
RECURSIVE norm_nonempty(_)
norm_nonempty(vals) ==
    IF vals = <<>> THEN <<>>
    ELSE (IF normalize(Head(vals)) = "" THEN <<>> ELSE <<normalize(Head(vals))>>)
         \o norm_nonempty(Tail(vals))

agent_normalize_list(vals) ==
    IF IsNone(vals) THEN <<>> ELSE norm_nonempty(vals[1])

\* the weights for a priceSensitivity ps in 1..5, from the weights w
sensitivity_weights(w, ps) ==
    LET price_w == 1500 + (ps - 1) * 625           \* in ten-thousandths
        clamped == IF price_w < 1000 THEN 1000
                   ELSE IF price_w > 6000 THEN 6000 ELSE price_w
        remaining == 10000 - clamped
        base_other == IF w.ecosystem_fit + w.design = 0 THEN 700
                      ELSE w.ecosystem_fit + w.design
    IN [price |-> RoundDiv(clamped, 10),
        ecosystem_fit |-> RoundDiv(remaining * w.ecosystem_fit, 10 * base_other),
        design |-> RoundDiv(remaining * w.design, 10 * base_other)]

apply_frontend_preferences_to_memory(memory_payload, req, budget) ==
    LET prefs == IF IsNone(req.brandPreferences) THEN <<>> ELSE req.brandPreferences[1]
        brands == memory_payload.preferred_brands
                  \cup {Strip(prefs[i]) : i \in {j \in DOMAIN prefs : Strip(prefs[j]) # ""}}
        ps == req.priceSensitivity
        weights == IF ~IsNone(ps) /\ ps[1] >= 1 /\ ps[1] <= 5
                   THEN sensitivity_weights(memory_payload.weights, ps[1])
                   ELSE memory_payload.weights
    IN [memory_payload EXCEPT !.preferred_brands = brands,
                              !.max_cart = budget,
                              !.weights = weights]

\* class Product of api/agent.py has no productType: type_tag is ""
filter_inventory_by_allowed_categories(products, allowed_categories_norm) ==
    LET allowed_set == ToSet(allowed_categories_norm)
        filtered == SelectSeq(products,
                              LAMBDA p : {normalize(t) : t \in ToSet(p.tags)}
                                         \cap allowed_set # {})
    IN IF allowed_categories_norm = <<>> THEN products
       ELSE IF filtered # <<>> THEN filtered ELSE products

\* the names of kept_items by count, highest first, at most 8
top_kept(kept_items) ==
    Take([i \in DOMAIN kept_items |->
             sorted(kept_items,
                    [j \in DOMAIN kept_items |-> <<0 - kept_items[j].count>>])[i].name],
         8)

\* avoid_norm: the stored rejection patterns, normalized, less the brands
\* preferred in this request
\* the preferred brands are not taken out
avoid_list_keeps_preferred(memory_payload, preferred_norm) ==
    norm_nonempty(memory_payload.rejection_patterns)

avoid_list(memory_payload, preferred_norm) ==
    SelectSeq(norm_nonempty(memory_payload.rejection_patterns),
              LAMBDA x : ~InList(x, preferred_norm))

\* the item names of the feedback learner's inputs that fill a counter
\* up to its cap
FillerNames ==
    <<"n01", "n02", "n03", "n04", "n05", "n06", "n07", "n08", "n09", "n10",
      "n11", "n12", "n13", "n14", "n15", "n16", "n17", "n18", "n19", "n20",
      "n21", "n22", "n23", "n24", "n25", "n26", "n27", "n28", "n29", "n30",
      "n31", "n32", "n33", "n34", "n35", "n36", "n37", "n38", "n39", "n40",
      "n41", "n42", "n43", "n44", "n45", "n46", "n47", "n48", "n49", "n50",
      "n51", "n52", "n53", "n54", "n55", "n56", "n57", "n58", "n59", "n60",
      "n61", "n62", "n63", "n64", "n65", "n66", "n67", "n68", "n69", "n70",
      "n71", "n72", "n73", "n74", "n75", "n76", "n77", "n78", "n79", "n80",
      "n81">>

\* sorted(...) of strings: the names and patterns the model uses, in the
\* order of Python's string comparison
StringOrder ==
    <<"desk", "lamp", "mouse", "n01", "n02", "n03", "n04", "n05", "n06",
      "n07", "n08", "n09", "n10", "n11", "n12", "n13", "n14", "n15", "n16",
      "n17", "n18", "n19", "n20", "n21", "n22", "n23", "n24", "n25", "n26",
      "n27", "n28", "n29", "n30", "n31", "n32", "n33", "n34", "n35", "n36",
      "n37", "n38", "n39", "n40", "n41", "n42", "n43", "n44", "n45", "n46",
      "n47", "n48", "n49", "n50", "n51", "n52", "n53", "n54", "n55", "n56",
      "n57", "n58", "n59", "n60", "n61", "n62", "n63", "n64", "n65", "n66",
      "n67", "n68", "n69", "n70", "n71", "n72", "n73", "n74", "n75", "n76",
      "n77", "n78", "n79", "n80", "n81", "sony">>

\* sorted(set of strings)
sorted_strings(strings) ==
    SelectSeq(StringOrder, LAMBDA x : x \in strings)

\* [k.strip() for k in names if k and k.strip()]
RECURSIVE strip_nonblank(_)
strip_nonblank(names) ==
    IF names = <<>> THEN <<>>
    ELSE (IF Strip(Head(names)) = "" THEN <<>> ELSE <<Strip(Head(names))>>)
         \o strip_nonblank(Tail(names))

\* counter[nn] = counter.get(nn, 0) + 1: a dict is the list of its entries
\* in insertion order, a new key goes last (c is the counter, bound once)
\* the count of a known name starts again at 1
inc_one_restarts(counter, nn) ==
    CHOOSE result \in
        {IF \E i \in DOMAIN c : c[i].name = nn
         THEN [i \in DOMAIN c |->
                  IF c[i].name = nn THEN [c[i] EXCEPT !.count = 1] ELSE c[i]]
         ELSE Append(c, [name |-> nn, count |-> 1]) : c \in {counter}} : TRUE

inc_one(counter, nn) ==
    CHOOSE result \in
        {IF \E i \in DOMAIN c : c[i].name = nn
         THEN [i \in DOMAIN c |->
                  IF c[i].name = nn THEN [c[i] EXCEPT !.count = @ + 1] ELSE c[i]]
         ELSE Append(c, [name |-> nn, count |-> 1]) : c \in {counter}} : TRUE

RECURSIVE inc_all(_, _)
inc_all(counter, names) ==
    IF names = <<>> THEN counter
    ELSE inc_all(IF Strip(Head(names)) = "" THEN counter
                 ELSE inc_one(counter, Strip(Head(names))),
                 Tail(names))

\* the cap argument of _inc_counts, which no caller passes
CountsCap == 80

\* no entry is ever evicted
inc_counts_uncapped(counter, names, cap) ==
    CHOOSE result \in
        {sorted(counted, [j \in DOMAIN counted |-> <<0 - counted[j].count>>]) :
            counted \in {inc_all(counter, names)}} : TRUE

\* _inc_counts(counter, names, cap)
inc_counts(counter, names, cap) ==
    CHOOSE result \in
        {Take(sorted(counted, [j \in DOMAIN counted |-> <<0 - counted[j].count>>]), cap) :
            counted \in {inc_all(counter, names)}} : TRUE

\* _index_inventory(inventory).get(key): the last product whose name,
\* stripped and lower-cased, is the key; None when there is none
inventory_get(inventory, key) ==
    LET at == {i \in DOMAIN inventory :
                  Strip(inventory[i].name) # "" /\ Lower(Strip(inventory[i].name)) = key}
    IN IF at = {} THEN None
       ELSE Some(inventory[CHOOSE i \in at : \A j \in at : j <= i])

\* the n names of a counter with the highest counts
top_names(counter, n) ==
    LET top == Take(sorted(counter, [j \in DOMAIN counter |-> <<0 - counter[j].count>>]), n)
    IN {top[i].name : i \in DOMAIN top}

\* brand_counts of _derive_from_items: the brands of the kept items found
\* in the inventory snapshot
RECURSIVE brand_counts(_, _)
brand_counts(kept_items, inventory) ==
    IF kept_items = <<>> THEN <<>>
    ELSE LET rest == brand_counts(SubSeq(kept_items, 1, Len(kept_items) - 1), inventory)
             p == inventory_get(inventory, Lower(kept_items[Len(kept_items)]))
         IN IF IsNone(p) \/ Strip(p[1].brand) = "" THEN rest
            ELSE inc_one(rest, Strip(p[1].brand))

\* tag_counts of _derive_from_items
RECURSIVE tag_counts(_, _)
tag_counts(kept_items, inventory) ==
    IF kept_items = <<>> THEN <<>>
    ELSE LET rest == tag_counts(SubSeq(kept_items, 1, Len(kept_items) - 1), inventory)
             p == inventory_get(inventory, Lower(kept_items[Len(kept_items)]))
         IN IF IsNone(p) THEN rest
            ELSE inc_all(rest, [i \in DOMAIN p[1].tags |-> normalize(p[1].tags[i])])

\* the patterns are kept whatever was stored
derive_from_items_replaces_patterns(memory_payload, kept_items, rejected_items, inventory_snapshot) ==
    [memory_payload EXCEPT
        !.rejection_patterns =
            sorted_strings({normalize(x) : x \in ToSet(strip_nonblank(rejected_items))})]

\* _derive_from_items; inventory_snapshot is Optional[list]
derive_from_items(memory_payload, kept_items, rejected_items, inventory_snapshot) ==
    LET kept == strip_nonblank(kept_items)
        rejected == strip_nonblank(rejected_items)
        rp == ({normalize(x) : x \in ToSet(memory_payload.rejection_patterns)} \ {""})
              \cup {normalize(r) : r \in ToSet(rejected)}
        inv == IF IsNone(inventory_snapshot) THEN <<>> ELSE inventory_snapshot[1]
        brands == brand_counts(kept, inv)
        tags == tag_counts(kept, inv)
    IN [memory_payload EXCEPT
           !.kept_items = inc_counts(@, kept, CountsCap),
           !.rejected_items = inc_counts(@, rejected, CountsCap),
           !.rejection_patterns = sorted_strings(rp),
           !.preferred_brands = @ \cup top_names(brands, 6),
           !.preferred_tags = @ \cup top_names(tags, 10)]

JStr(s) == [t |-> "str", v |-> s]

JNum(n) == [t |-> "num", v |-> n]

JNull == [t |-> "null"]

\* bool(value) of a JSON value
JTruthy(x) ==
    CASE x.t = "str" -> x.v # ""
      [] x.t = "num" -> x.v # 0
      [] OTHER -> FALSE

\* a or b or default
FirstTruthy(a, b, default) ==
    IF JTruthy(a) THEN a ELSE IF JTruthy(b) THEN b ELSE JStr(default)

\* the cart text a reasoner answered: text that is no JSON object, or an
\* object with a list of item objects and a total
NotJson == [json |-> FALSE]

CartItemJson(name, title, brand, merchant) ==
    [name |-> name, title |-> title, brand |-> brand, merchant |-> merchant]

CartJson(items, total) == [json |-> TRUE, items |-> items, total |-> total]

\* _fallback_explanation calls .strip() on the name and on the brand of each
\* of the first 8 items; a value that is no string has no such method
fallback_raises(cart) ==
    /\ cart.json
    /\ \E i \in DOMAIN Take(cart.items, 8) :
           \/ FirstTruthy(cart.items[i].name, cart.items[i].title, "Item").t # "str"
           \/ FirstTruthy(cart.items[i].brand, cart.items[i].merchant, "Unknown").t
                  # "str"

\* int(budget) of an amount in mills: truncation toward zero, in dollars
IntOf(mills) == IF mills >= 0 THEN mills \div 1000 ELSE 0 - ((0 - mills) \div 1000)

\* The text of _fallback_explanation as the record of what it is built of:
\* the picked "<brand> <name>" pairs, the total rounded to 2 decimals (None
\* is "unknown"), the budget as an integer and at most 4 avoided patterns.
fallback_explanation(cart, budget, avoid_norm) ==
    LET items == IF cart.json THEN Take(cart.items, 8) ELSE <<>>
        picked == [i \in DOMAIN items |->
                      [brand |-> Strip(FirstTruthy(items[i].brand, items[i].merchant,
                                                   "Unknown").v),
                       name |-> Strip(FirstTruthy(items[i].name, items[i].title,
                                                  "Item").v)]]
        total == IF cart.json /\ cart.total.t = "num"
                 THEN Some(round2(cart.total.v)) ELSE None
    IN [fallback |-> TRUE,
        picked |-> picked,
        total |-> total,
        budget |-> IntOf(budget),
        avoided |-> Take(avoid_norm, 4)]

RecommendationRequest(uid, uid2, products, ctx, max_total, intent, cats, brands, spend, ps, on) ==
    [user_id |-> uid, userId |-> uid2, products |-> products, context |-> ctx,
     max_total |-> max_total, shoppingIntent |-> intent, allowedCategories |-> cats,
     brandPreferences |-> brands, maxSpend |-> spend, priceSensitivity |-> ps,
     agentEnabled |-> on]

\* intent_text or context_text or "personal use"
intent_of(req) ==
    LET intent_text == IF IsNone(req.shoppingIntent) THEN "" ELSE Strip(req.shoppingIntent[1])
        context_text == IF IsNone(req.context) THEN "" ELSE Strip(req.context[1])
    IN IF intent_text # "" THEN intent_text
       ELSE IF context_text # "" THEN context_text
       ELSE "personal use"

\* _memory_store of api/agent.py: meta["assistant_id"], memory, sessions,
\* corrections
AgentStore(assistant_id, memory, sessions, corrections) ==
    [assistant_id |-> assistant_id, memory |-> memory, sessions |-> sessions,
     corrections |-> corrections]

\* _db_set_user_memory: the entry keeps its backboard_memory_id when none is given
db_set_user_memory(store, user_id, memory_payload, backboard_memory_id) ==
    LET old == store.memory[user_id]
        kept == IF IsNone(old) THEN None ELSE old[1].backboard_memory_id
    IN [store EXCEPT !.memory[user_id] =
           Some([memory |-> memory_payload,
                 backboard_memory_id |-> IF ~IsNone(backboard_memory_id)
                                            /\ backboard_memory_id[1] # ""
                                         THEN backboard_memory_id ELSE kept])]

db_insert_session(store, user_id, cart, explanation, inventory, now) ==
    [store EXCEPT !.sessions =
        Append(@, [user_id |-> user_id, cart |-> cart, explanation |-> explanation,
                   inventory |-> inventory, timestamp |-> now])]

\* _default_memory(max_total=500) of record_feedback, in mills
FeedbackMaxTotal == 500000

FeedbackRequest(user_id, rejected_items, kept_items, reason) ==
    [user_id |-> user_id, rejected_items |-> rejected_items,
     kept_items |-> kept_items, reason |-> reason]

db_insert_correction(store, user_id, rejected, kept, reason, now) ==
    [store EXCEPT !.corrections =
        Append(@, [user_id |-> user_id, rejected |-> rejected, kept |-> kept,
                   reason |-> reason, timestamp |-> now])]

\* _db_get_latest_session: the first of the user's sessions in the stable
\* descending sort by timestamp; None when the user has none
db_get_latest_session(store, user_id) ==
    LET mine == SelectSeq(store.sessions, LAMBDA x : x.user_id = user_id)
        first == sorted(mine, [j \in DOMAIN mine |-> <<0 - mine[j].timestamp>>])
    IN IF mine = <<>> THEN None ELSE Some(first[1])

\* record_feedback reads (it.get("name") or it.get("title") or "").strip()
\* of every item of the latest cart when no kept item is given
inference_raises(cart) ==
    /\ cart.json
    /\ \E i \in DOMAIN cart.items :
           /\ JTruthy(FirstTruthy(cart.items[i].name, cart.items[i].title, ""))
           /\ FirstTruthy(cart.items[i].name, cart.items[i].title, "").t # "str"

\* inferred: the names of the items of the latest cart
RECURSIVE inferred_names(_)
inferred_names(items) ==
    IF items = <<>> THEN <<>>
    ELSE LET n == Strip(FirstTruthy(Head(items).name, Head(items).title, "").v)
         IN (IF n = "" THEN <<>> ELSE <<n>>) \o inferred_names(Tail(items))

\* kept of record_feedback: the kept items given, or else the items of the
\* latest cart that are not rejected
kept_of(req, rejected, latest) ==
    LET given == IF IsNone(req.kept_items) THEN <<>> ELSE strip_nonblank(req.kept_items[1])
        cart == IF IsNone(latest) THEN NotJson ELSE latest[1].cart
        inferred == IF cart.json THEN inferred_names(cart.items) ELSE <<>>
        rejected_norm == {normalize(r) : r \in ToSet(rejected)} \ {""}
    IN IF given # <<>> THEN given
       ELSE SelectSeq(inferred, LAMBDA n : normalize(n) \notin rejected_norm)

FeedbackOk(kept, rejected) ==
    [op |-> "feedback", status |-> 200, kept |-> Take(kept, 10),
     rejected |-> Take(rejected, 10)]

FeedbackError(status, message) ==
    [op |-> "feedback", status |-> status, message |-> message]

\* the calls made to the Backboard client
Call(op, arg) == [op |-> op, arg |-> arg]

DisabledCart == [items |-> <<>>, total |-> 0, notes |-> "Agent disabled by user."]

NoMatchCart ==
    [items |-> <<>>, total |-> 0,
     notes |-> "No items match the selected categories. Try different categories or broaden your selection."]

RecommendOk(cart, explanation) ==
    [op |-> "recommend", status |-> 200, cart |-> cart, explanation |-> explanation]

RecommendError(status, message) ==
    [op |-> "recommend", status |-> status, message |-> message]

----------------------------------------------------------------------------
(* Inputs *)

MaxAudit == 2

Users == {DEFAULT_DEMO_USER, "alice"}

\* the meagent_user cookie
Cookies == {None, Some("alice")}

\* uuid4().hex[:12]: any value, a repeated one included
EventIds == {"evt_a", "evt_b"}

Book == [id |-> "i1", title |-> "Novel", price |-> 12000, category |-> "books", qty |-> 1]

Toy == [id |-> "i2", title |-> "Robot", price |-> 30000, category |-> "toys", qty |-> 2]

Pen == [id |-> "i3", title |-> "Pen", price |-> 2500, category |-> "office", qty |-> 1]

CheckRequest(action, cartTotal, categories, items) ==
    [action |-> action, cartTotal |-> cartTotal, categories |-> categories,
     items |-> items]

\* the check requests of the whole-system specification
SystemRequests ==
    {CheckRequest("addToCart", Some(50000), None, None),
     CheckRequest("checkoutStart", Some(200000), Some(<<"toys">>), Some(<<Book, Toy>>))}

PolicyUpdate(maxSpend, allowedCategories, agentEnabled, requireConfirm) ==
    [maxSpend |-> maxSpend, allowedCategories |-> allowedCategories,
     agentEnabled |-> agentEnabled, requireConfirm |-> requireConfirm]

\* the bodies sent to POST /policy in the whole-system specification
PolicyUpdates ==
    {PolicyUpdate(Some(100000), Some(<<"Books", " books ">>), Some(FALSE), None),
     PolicyUpdate(None, Some(<<"toys">>), Some(FALSE), None),
     PolicyUpdate(Some(-1000), None, None, Some(FALSE))}

\* the bodies sent to POST /policy in the policy specification: a list with
\* capitals, blanks and a duplicate; an unknown category; a negative
\* maxSpend; a legacy set; an empty list; a list of blank strings; a body
\* with maxSpend only
PolicyBodies ==
    {PolicyUpdate(Some(100000), Some(<<"Books", " books ">>), Some(FALSE), None),
     PolicyUpdate(None, Some(<<"toys">>), Some(FALSE), None),
     PolicyUpdate(Some(-1000), None, None, Some(FALSE)),
     PolicyUpdate(None, Some(<<" office">>), None, None),
     PolicyUpdate(None, Some(<<>>), None, Some(FALSE)),
     PolicyUpdate(None, Some(<<"  ", "">>), None, None),
     PolicyUpdate(Some(20000), None, None, None)}

\* the inputs of the audit specification: the last reading of the clock,
\* one check request, the bodies sent to POST /audit (a user note, and one
\* whose decision is not ALLOW or BLOCK), one policy update, and the limit
\* query parameter (absent, below the minimum, 1, 2)
MaxClock == 1

AuditCheck == CheckRequest("addToCart", Some(50000), None, None)

UserNote ==
    AuditEventCreate("user", "manualApproval", "ALLOW",
                     Reason("approved by user", <<>>, <<>>, <<>>),
                     [cartTotal |-> Some(50000), categories |-> None, itemCount |-> 1])

AuditBodies == {UserNote, [UserNote EXCEPT !.decision = "MAYBE"]}

AuditPolicyUpdate == PolicyUpdate(Some(100000), None, Some(FALSE), None)

Limits == {None, Some(0), Some(1), Some(2)}

\* the check requests of the rules specification
RuleActions == {"cartCreate", "recommendBundle", "checkoutStart", "addToCart"}

RuleTotals == {None, Some(100000), Some(120000), Some(150004), Some(200126)}

RuleCategories ==
    {None, Some(<<>>), Some(<<"books">>), Some(<<"toys", "books">>),
     Some(<<"books", "toys">>)}

RuleItems ==
    {None, Some(<<>>), Some(<<Pen>>), Some(<<Book, Pen>>),
     Some(<<Toy, Book, Pen, Toy, Book>>)}

RuleRequests ==
    {CheckRequest(a, t, c, i) :
        a \in RuleActions, t \in RuleTotals, c \in RuleCategories, i \in RuleItems}

\* the bodies sent to POST /policy in the rules specification
RulePolicyUpdates ==
    {PolicyUpdate(Some(100000), None, None, None),
     PolicyUpdate(None, Some(<<"Books", " office">>), None, None),
     PolicyUpdate(None, Some(<<"books", "toys">>), None, None),
     PolicyUpdate(None, None, Some(FALSE), None),
     PolicyUpdate(None, None, None, Some(FALSE))}

CartItemInput(id, qty) == [id |-> id, qty |-> qty]

BundleRequest(maxSpend, categories, brands, sensitivity, enabled, persona, cart) ==
    [maxSpend |-> maxSpend, allowedCategories |-> categories,
     brandPreferences |-> brands, priceSensitivity |-> sensitivity,
     agentEnabled |-> enabled, personaId |-> persona, cartItems |-> cart]

\* the bodies sent to POST /agent/bundle
BundleBudgets == {0, 25000, 100000, 500005}

BundleCategories ==
    {<<>>, <<"toys">>, <<"books">>, <<" office", "Electronics ">>,
     <<"OFFICE", "clothing">>, <<"smart_home", "construction", "home">>}

BundleBrands == {<<>>, <<"Apple", " logitech">>, <<"rgb", "">>}

BundleSensitivities == {3, 6}

BundlePersonas == {None, Some("jamie"), Some("sam")}

BundleCarts ==
    {<<>>, <<CartItemInput(3019, 1)>>,
     <<CartItemInput(3102, 2), CartItemInput(3102, 1)>>,
     <<CartItemInput(3001, 0)>>}

BundleRequests ==
    {BundleRequest(m, c, b, s, e, p, k) :
        m \in BundleBudgets, c \in BundleCategories, b \in BundleBrands,
        s \in BundleSensitivities, e \in BOOLEAN, p \in BundlePersonas,
        k \in BundleCarts}

\* A product of the repository's catalog given a stockQuantity attribute and
\* a price: the catalogs generate_bundle is written for
Stocked(id, price, stock) ==
    LET product == CHOOSE q \in ToSet(PRODUCTS) : q.id = id
    IN [id |-> product.id, title |-> product.title, vendor |-> product.vendor,
        productType |-> product.productType, price |-> price,
        inStock |-> product.inStock, stockQuantity |-> Some(stock)]

SelectCatalogs ==
    {PRODUCTS,
     <<>>,
     <<Stocked(3101, 169000, 1), Stocked(3106, 89990, 1)>>,
     <<Stocked(3101, 169000, 2), Stocked(3106, 89990, 2), Stocked(3115, 29990, 2),
       Stocked(3105, 69990, 2)>>,
     <<Stocked(3105, 90000, 1), Stocked(3115, 10005, 1), Stocked(3102, 0, 3),
       Stocked(3103, 99990, 0), Stocked(3019, 34950, 1)>>,
     <<Stocked(3111, 499000, 1), Stocked(3102, 99000, 1), Stocked(3103, 99990, 1),
       Stocked(3104, 99990, 1), Stocked(3105, 69990, 1), Stocked(3106, 89990, 1),
       Stocked(3107, 89990, 1), Stocked(3115, 29990, 1)>>}

SelectRequests ==
    {BundleRequest(m, c, b, 3, e, p, k) :
        m \in {25000, 100000, 500005},
        c \in {<<"toys">>, <<" office", "Electronics ">>},
        b \in {<<>>, <<"Apple", " logitech">>},
        e \in BOOLEAN,
        p \in {None, Some("jamie")},
        k \in {<<>>, <<CartItemInput(3115, 2)>>}}

\* the bodies sent to POST /agent/recommend
MaxSessions == 2

AgentUsers == {"u1"}

Desk == InventoryProduct("Desk", 249000, "IKEA", <<"Office", "furniture">>)

Lamp == InventoryProduct("Lamp", 129000, "BenQ", <<"home">>)

RecommendBody(uid, products, cats, brands, ps, on) ==
    RecommendationRequest(uid, None, products, Some("personal use"), Some(500000),
                          None, cats, brands, None, ps, on)

RecommendRequests ==
    {RecommendBody(None, <<Desk, Lamp>>, None, None, None, Some(FALSE)),
     RecommendBody(Some("u1"), <<Desk, Lamp>>, None, None, None, None),
     RecommendBody(Some("u1"), <<Desk, Lamp>>, Some(<<" office">>), Some(<<"Sony">>),
                   Some(5), Some(TRUE)),
     RecommendBody(Some("u1"), <<>>, Some(<<" office">>), None, None, None),
     RecommendBody(Some("u1"), <<Desk, Lamp>>, None, None, None, Some(FALSE)),
     RecommendBody(Some("u1"), <<Desk, Lamp>>, Some(<<"garden">>), None, None, None),
     RecommendBody(Some(" u1 "), <<Desk, Lamp>>, Some(<<" office">>), Some(<<"Sony">>),
                   Some(5), Some(FALSE))}

AssistantIds == {"asst_1"}

MemoryIds == {"mem_1", "mem_2"}

\* what the reasoner may answer to the decision message
CartContents ==
    {NotJson,
     CartJson(<<CartItemJson(JStr("Desk"), JNull, JStr(" IKEA"), JNull)>>, JNum(249000)),
     CartJson(<<CartItemJson(JNull, JStr("Lamp"), JNull, JNull),
                CartItemJson(JNum(7), JNull, JStr("BenQ"), JNull)>>, JNull)}

ExplanationTexts == {"Summary ..."}

\* the bodies sent to POST /agent/feedback: kept items left to be inferred
\* from the latest cart, a name rejected in two spellings, a new name kept
\* three times, a new name rejected once, a rejected brand with a kept list
\* of blanks only
MaxFeedback == 2

FeedbackRequests ==
    {FeedbackRequest("u1", <<"Lamp">>, None, "too bright"),
     FeedbackRequest("u1", <<" lamp ", "Lamp">>, Some(<<"Desk">>), ""),
     FeedbackRequest("u1", <<>>, Some(<<" Mouse", "Mouse", "Mouse">>), ""),
     FeedbackRequest("u1", <<"Mouse">>, Some(<<"Lamp">>), ""),
     FeedbackRequest("u1", <<"Sony">>, Some(<<"  ">>), "brand")}

\* the feedback given before recommendations are asked for
LearnFeedbackRequests ==
    {FeedbackRequest("u1", <<" lamp ", "Lamp">>, Some(<<"Desk">>), ""),
     FeedbackRequest("u1", <<"Sony">>, Some(<<"  ">>), "brand")}

\* the requests of a user who has given feedback
LearnRecommendRequests ==
    {RecommendBody(Some("u1"), <<Desk, Lamp>>, Some(<<" office">>), Some(<<"Sony">>),
                   Some(5), Some(TRUE)),
     RecommendBody(Some("u1"), <<Desk, Lamp>>, None, Some(<<" logitech">>), None, None),
     RecommendBody(Some(" u1 "), <<Desk, Lamp>>, Some(<<" office">>), Some(<<"Sony">>),
                   Some(5), Some(FALSE))}

\* A store the routes have filled: one recommend call recorded a session,
\* then three feedback calls kept and rejected the names of LearnedCalls:
\* "Desk" once and 78 names twice, then "Lamp" twice, then "Desk" again.
LearnedCalls ==
    <<<<"Desk">> \o [i \in 1..156 |-> FillerNames[(i + 1) \div 2]],
      <<"Lamp", "Lamp">>,
      <<"Desk">>>>

LearnedSession ==
    [user_id |-> "u1",
     cart |-> CartJson(<<CartItemJson(JStr("Desk"), JNull, JStr(" IKEA"), JNull)>>,
                       JNum(249000)),
     explanation |-> [fallback |-> FALSE, text |-> "Summary ..."],
     inventory |-> <<Desk, Lamp>>,
     timestamp |-> 0]

----------------------------------------------------------------------------
(* State *)

NoRequest == [op |-> "none"]

\* no recommend call yet
IdleCall ==
    [pc |-> "idle", req |-> NoRequest, user_id |-> "", budget |-> 0,
     memory_payload |-> AGENT_DEFAULT_POLICY, aliased |-> FALSE, existing_id |-> None,
     inventory_filtered |-> <<>>, avoid_norm |-> <<>>, decision_content |-> NotJson,
     attempt |-> 0, calls |-> <<>>, answers |-> <<>>]

\* no feedback call yet
IdleFeedback ==
    [pc |-> "idle", req |-> NoRequest, user_id |-> "",
     memory_payload |-> AGENT_DEFAULT_POLICY, aliased |-> FALSE,
     existing_id |-> None, kept |-> <<>>, rejected |-> <<>>, calls |-> <<>>, answers |-> <<>>,
     response |-> NoRequest]

\* the memory document after the calls of LearnedCalls: the 78 names counted
\* twice at once go first, then "Lamp", then "Desk" that reached 2 last;
\* the brands and tags are those of the recorded inventory
LearnedCounts ==
    [i \in 1..80 |-> [name |-> IF i = 80 THEN "Desk"
                               ELSE IF i = 79 THEN "Lamp" ELSE FillerNames[i],
                      count |-> 2]]

LearnedMemory ==
    [default_memory(FeedbackMaxTotal) EXCEPT
        !.kept_items = LearnedCounts,
        !.rejected_items = LearnedCounts,
        !.rejection_patterns = SubSeq(StringOrder, 1, 2) \o SubSeq(StringOrder, 4, 81),
        !.preferred_brands = @ \cup {"IKEA", "BenQ"},
        !.preferred_tags = @ \cup {"office", "furniture", "home"}]

\* _memory_store after the calls of LearnedCalls
LearnedStore ==
    AgentStore(Some("asst_1"),
               [u \in AgentUsers |->
                   Some([memory |-> LearnedMemory, backboard_memory_id |-> Some("mem_1")])],
               <<LearnedSession>>,
               [i \in 1..3 |-> [user_id |-> "u1", rejected |-> LearnedCalls[i],
                                kept |-> LearnedCalls[i], reason |-> "",
                                timestamp |-> 0]])

Init ==
    /\ policies = [u \in Users |-> None]
    /\ audit_logs = [u \in Users |-> <<>>]
    /\ clock = 0
    /\ request = NoRequest
    /\ response = NoRequest
    /\ agent_store = AgentStore(None, [u \in AgentUsers |-> None], <<>>, <<>>)
    /\ rec = IdleCall
    /\ fb = IdleFeedback

----------------------------------------------------------------------------
(* api/policy.py: the handlers *)

\* GET /policy
GetUserPolicy(cookie) ==
    LET user_id == get_user_id(cookie)
        policy_data == get_policy(policies, user_id)
        normalized_allowed == normalize_categories(Some(policy_data.allowedCategories))
        expand == should_expand_categories(normalized_allowed)
        migrated == IF expand
                    THEN [policy_data EXCEPT !.allowedCategories = ALL_ALLOWED_CATEGORIES]
                    ELSE policy_data
        policy == AgentPolicy(migrated.maxSpend,
                              OrAll(normalize_categories(Some(migrated.allowedCategories))),
                              migrated.agentEnabled,
                              migrated.requireConfirm)
    IN /\ policies' = IF expand THEN save_policy(policies, user_id, migrated) ELSE policies
       /\ request' = [op |-> "getPolicy", cookie |-> cookie]
       /\ response' = [op |-> "getPolicy", status |-> 200, userId |-> user_id,
                       policy |-> policy]
       /\ UNCHANGED <<audit_logs, clock, agent_store, rec, fb>>

\* POST /policy
UpdateUserPolicy(cookie, update) ==
    LET user_id == get_user_id(cookie)
        current == get_policy(policies, user_id)
        allowed_categories ==
            IF ~IsNone(update.allowedCategories)
            THEN normalize_categories(update.allowedCategories)
            ELSE normalize_categories(Some(current.allowedCategories))
        new_policy ==
            [maxSpend |-> IF ~IsNone(update.maxSpend) THEN update.maxSpend[1]
                          ELSE current.maxSpend,
             allowedCategories |-> OrAll(allowed_categories),
             agentEnabled |-> IF ~IsNone(update.agentEnabled) THEN update.agentEnabled[1]
                              ELSE current.agentEnabled,
             requireConfirm |-> IF ~IsNone(update.requireConfirm)
                                THEN update.requireConfirm[1]
                                ELSE current.requireConfirm]
        invalid_cats == ToSet(new_policy.allowedCategories) \ ToSet(ALL_ALLOWED_CATEGORIES)
        \* PolicyUpdateRequest: maxSpend is Field(None, ge=0)
        status == IF ~IsNone(update.maxSpend) /\ update.maxSpend[1] < 0 THEN 422
                  ELSE IF new_policy.maxSpend < 0 THEN 400
                  ELSE IF invalid_cats # {} THEN 400
                  ELSE 200
    IN /\ policies' = IF status = 200 THEN save_policy(policies, user_id, new_policy)
                      ELSE policies
       /\ request' = [op |-> "updatePolicy", cookie |-> cookie, body |-> update]
       /\ response' = IF status = 200
                      THEN [op |-> "updatePolicy", status |-> 200, userId |-> user_id,
                            policy |-> AgentPolicy(new_policy.maxSpend,
                                                   new_policy.allowedCategories,
                                                   new_policy.agentEnabled,
                                                   new_policy.requireConfirm)]
                      ELSE [op |-> "updatePolicy", status |-> status]
       /\ UNCHANGED <<audit_logs, clock, agent_store, rec, fb>>

\* DELETE /policy
ResetPolicy(cookie) ==
    LET user_id == get_user_id(cookie)
        default_policy == [maxSpend |-> DefaultMaxSpend,
                           allowedCategories |-> ALL_ALLOWED_CATEGORIES,
                           agentEnabled |-> TRUE,
                           requireConfirm |-> TRUE]
    IN /\ policies' = save_policy(policies, user_id, default_policy)
       /\ request' = [op |-> "resetPolicy", cookie |-> cookie]
       /\ response' = [op |-> "resetPolicy", status |-> 200,
                       policy |-> get_policy(policies', user_id)]
       /\ UNCHANGED <<audit_logs, clock, agent_store, rec, fb>>

----------------------------------------------------------------------------
(* api/authority.py: POST /authority/check *)

CheckAuthority(cookie, req, event_id) ==
    LET user_id == get_user_id(cookie)
        policy_data == get_policy(policies, user_id)
        policy == AgentPolicy(policy_data.maxSpend, policy_data.allowedCategories,
                              policy_data.agentEnabled, policy_data.requireConfirm)
        verdict == Decide(policy, req)
        event == [id |-> event_id,
                  ts |-> clock,
                  actor |-> "agent",
                  action |-> req.action,
                  decision |-> verdict.decision,
                  reason |-> verdict.reason,
                  policySnapshot |-> model_dump(policy),
                  meta |-> AuditMeta(req)]
    IN /\ Len(audit_logs[user_id]) < MaxAudit
       /\ audit_logs' = add_audit_event(audit_logs, user_id, event)
       /\ request' = [op |-> "check", cookie |-> cookie, body |-> req]
       /\ response' = [op |-> "check", status |-> 200,
                       decision |-> verdict.decision,
                       reason |-> verdict.reason,
                       policySnapshot |-> policy,
                       blockedItems |-> IF Len(verdict.blocked_items) > 0
                                        THEN Some(verdict.blocked_items) ELSE None,
                       auditEventId |-> event_id]
       /\ UNCHANGED <<policies, clock, agent_store, rec, fb>>

----------------------------------------------------------------------------
(* api/audit.py: POST /audit, GET /audit; the clock *)

\* the new event takes the place of the user's log
CreateAuditEvent_overwrites(cookie, event_create, event_id) ==
    LET user_id == get_user_id(cookie)
        policy_data == get_policy(policies, user_id)
        policy == AgentPolicy(policy_data.maxSpend, policy_data.allowedCategories,
                              policy_data.agentEnabled, policy_data.requireConfirm)
        event == [id |-> event_id, ts |-> clock, actor |-> event_create.actor,
                  action |-> event_create.action, decision |-> event_create.decision,
                  reason |-> event_create.reason,
                  policySnapshot |-> model_dump(policy), meta |-> event_create.meta]
        valid == AuditEventCreateValid(event_create)
    IN /\ Len(audit_logs[user_id]) < MaxAudit
       /\ audit_logs' = IF valid THEN add_audit_event([audit_logs EXCEPT ![user_id] = <<>>],
                                             user_id, event)
                        ELSE audit_logs
       /\ request' = [op |-> "createAudit", cookie |-> cookie, body |-> event_create]
       /\ response' = IF valid
                      THEN [op |-> "createAudit", status |-> 200,
                            event |-> AuditEvent(event_id, clock, event_create.actor,
                                                 event_create.action,
                                                 event_create.decision,
                                                 event_create.reason, policy,
                                                 event_create.meta)]
                      ELSE [op |-> "createAudit", status |-> 422]
       /\ UNCHANGED <<policies, clock, agent_store, rec, fb>>

\* POST /audit
CreateAuditEvent(cookie, event_create, event_id) ==
    LET user_id == get_user_id(cookie)
        policy_data == get_policy(policies, user_id)
        policy == AgentPolicy(policy_data.maxSpend, policy_data.allowedCategories,
                              policy_data.agentEnabled, policy_data.requireConfirm)
        event == [id |-> event_id, ts |-> clock, actor |-> event_create.actor,
                  action |-> event_create.action, decision |-> event_create.decision,
                  reason |-> event_create.reason,
                  policySnapshot |-> model_dump(policy), meta |-> event_create.meta]
        valid == AuditEventCreateValid(event_create)
    IN /\ Len(audit_logs[user_id]) < MaxAudit
       /\ audit_logs' = IF valid THEN add_audit_event(audit_logs, user_id, event)
                        ELSE audit_logs
       /\ request' = [op |-> "createAudit", cookie |-> cookie, body |-> event_create]
       /\ response' = IF valid
                      THEN [op |-> "createAudit", status |-> 200,
                            event |-> AuditEvent(event_id, clock, event_create.actor,
                                                 event_create.action,
                                                 event_create.decision,
                                                 event_create.reason, policy,
                                                 event_create.meta)]
                      ELSE [op |-> "createAudit", status |-> 422]
       /\ UNCHANGED <<policies, clock, agent_store, rec, fb>>

\* GET /audit?limit=...
GetAuditLog(cookie, limit) ==
    LET user_id == get_user_id(cookie)
        lim == IF IsNone(limit) THEN DefaultLimit ELSE limit[1]
        valid == lim >= MinLimit /\ lim <= MaxLimit
        events == audit_events(get_audit_logs(audit_logs, user_id, lim))
    IN /\ request' = [op |-> "getAudit", cookie |-> cookie, limit |-> limit]
       /\ response' = IF valid
                      THEN [op |-> "getAudit", status |-> 200, userId |-> user_id,
                            events |-> events, total |-> Len(events)]
                      ELSE [op |-> "getAudit", status |-> 422]
       /\ UNCHANGED <<policies, audit_logs, clock, agent_store, rec, fb>>

\* datetime.utcnow() moves on to its next reading; two calls between two
\* moves read the same value
Tick ==
    /\ clock < MaxClock
    /\ clock' = clock + 1
    /\ UNCHANGED <<policies, audit_logs, request, response, agent_store, rec, fb>>

----------------------------------------------------------------------------
(* api/agent.py: POST /agent/bundle *)

\* BundleRequest: maxSpend is Field(..., gt=0), priceSensitivity is
\* Field(ge=1, le=5), CartItemInput.qty is Field(ge=1)
BundleRequestValid(payload) ==
    /\ payload.maxSpend > 0
    /\ payload.priceSensitivity >= 1 /\ payload.priceSensitivity <= 5
    /\ \A i \in DOMAIN payload.cartItems : payload.cartItems[i].qty >= 1

\* An invalid body is answered 422 before the route runs; an exception the
\* route raises is answered 500; the route reads PRODUCTS and writes nothing.
GenerateBundle(payload) ==
    LET result == generate_bundle(PRODUCTS, payload)
    IN /\ request' = [op |-> "bundle", body |-> payload]
       /\ response' = IF ~BundleRequestValid(payload)
                      THEN [op |-> "bundle", status |-> 422]
                      ELSE IF result.raised # ""
                      THEN [op |-> "bundle", status |-> 500, raised |-> result.raised]
                      ELSE [op |-> "bundle", status |-> 200,
                            items |-> result.items,
                            subtotal |-> result.subtotal,
                            currency |-> result.currency]
       /\ UNCHANGED <<policies, audit_logs, clock, agent_store, rec, fb>>

\* The same route over a catalog that shopify.PRODUCTS could hold
GenerateBundleOver(catalog, payload) ==
    LET result == generate_bundle(catalog, payload)
    IN /\ request' = [op |-> "bundle", body |-> payload, catalog |-> catalog]
       /\ response' = IF ~BundleRequestValid(payload)
                      THEN [op |-> "bundle", status |-> 422]
                      ELSE IF result.raised # ""
                      THEN [op |-> "bundle", status |-> 500, raised |-> result.raised]
                      ELSE [op |-> "bundle", status |-> 200,
                            items |-> result.items,
                            subtotal |-> result.subtotal,
                            currency |-> result.currency]
       /\ UNCHANGED <<policies, audit_logs, clock, agent_store, rec, fb>>

----------------------------------------------------------------------------
(* api/agent.py: POST /agent/recommend.  The route is a coroutine: a step  *)
(* runs from one await of the Backboard client to the next, and the answer *)
(* of the client is the input of the step that follows it.                 *)

\* In memory the payload a route reads for a stored document is the stored
\* dict itself: a call in flight holds it while no other dict was stored
\* for the user since.
Holds(call, user_id) ==
    /\ call.pc \notin {"idle", "done"}
    /\ call.user_id = user_id
    /\ call.aliased

\* the stored dict was changed in place: the call that holds it sees it
mutated(call, user_id, memory_payload) ==
    IF Holds(call, user_id) THEN [call EXCEPT !.memory_payload = memory_payload]
    ELSE call

\* another dict was stored for the user: the call still holds the old one
replaced(call, user_id) ==
    IF Holds(call, user_id) THEN [call EXCEPT !.aliased = FALSE] ELSE call

\* what the other call holds after _db_set_user_memory of writer's payload
after_set(call, writer) ==
    IF writer.aliased THEN call ELSE replaced(call, writer.user_id)

\* the route goes on to its next await; there is no answer yet
Continue(r, store) ==
    /\ rec' = r
    /\ agent_store' = store
    /\ response' = NoRequest

\* the route returns or raises
Respond(r, store, answer) ==
    /\ rec' = [r EXCEPT !.pc = "done"]
    /\ agent_store' = store
    /\ response' = answer

\* _raise_backboard_502(stage, exc)
BackboardError(r, store, stage) ==
    Respond(r, store, RecommendError(502, <<"Backboard error during", stage>>))

\* from _normalize_user_id up to the first await of _ensure_backboard_memory
SyncMemory(r, store) ==
    IF user_id_missing(r.req)
    THEN Respond(r, store, RecommendError(422, "Missing user_id or userId"))
    ELSE LET user_id == normalize_user_id(r.req)
             budget == normalize_budget(r.req)
             mem_doc == store.memory[user_id]
             memory_payload ==
                 apply_frontend_preferences_to_memory(
                     IF IsNone(mem_doc) THEN default_memory(budget) ELSE mem_doc[1].memory,
                     r.req, budget)
             \* the payload of a stored document is the stored dict itself
             store2 == IF IsNone(mem_doc) THEN store
                       ELSE [store EXCEPT !.memory[user_id] =
                                Some([mem_doc[1] EXCEPT !.memory = memory_payload])]
             existing_id == IF IsNone(mem_doc) THEN None
                            ELSE mem_doc[1].backboard_memory_id
             op == IF IsNone(existing_id) THEN "add_memory" ELSE "update_memory"
         IN Continue([r EXCEPT !.pc = op,
                               !.user_id = user_id,
                               !.budget = budget,
                               !.memory_payload = memory_payload,
                               !.aliased = ~IsNone(mem_doc),
                               !.existing_id = existing_id,
                               !.calls = Append(@, Call(op, memory_payload))],
                     store2)

\* the test of agentEnabled left out
agent_disabled_never(req) == FALSE

\* req.agentEnabled is False
agent_disabled(req) == req.agentEnabled = Some(FALSE)

\* from the return of _ensure_backboard_memory up to create_thread
SelectInventory(r, store) ==
    IF agent_disabled(r.req)
    THEN Respond(r, store,
                 RecommendOk(DisabledCart,
                             "Agent is disabled. Enable it to generate recommendations."))
    ELSE LET allowed_norm == agent_normalize_list(r.req.allowedCategories)
             preferred_norm == agent_normalize_list(r.req.brandPreferences)
             avoid_norm == avoid_list(r.memory_payload, preferred_norm)
             inventory_filtered ==
                 filter_inventory_by_allowed_categories(r.req.products, allowed_norm)
         IN IF inventory_filtered = <<>>
            THEN Respond(r, store,
                         RecommendOk(NoMatchCart,
                                     "No relevant items were available for the selected categories."))
            ELSE Continue([r EXCEPT !.pc = "create_thread",
                                    !.avoid_norm = avoid_norm,
                                    !.inventory_filtered = inventory_filtered,
                                    !.calls = Append(@, Call("create_thread", <<>>))],
                          store)

\* _db_insert_session and the answer
Finish(r, store, explanation) ==
    Respond(r,
            db_insert_session(store, r.user_id, r.decision_content, explanation,
                              r.inventory_filtered, clock),
            RecommendOk(r.decision_content, explanation))

RecommendStart(req) ==
    LET r == [IdleCall EXCEPT !.req = req]
    IN /\ rec.pc \in {"idle", "done"}
       /\ request' = [op |-> "recommend", body |-> req]
       /\ IF IsNone(agent_store.assistant_id)
          THEN Continue([r EXCEPT !.pc = "create_assistant",
                                  !.calls = <<Call("create_assistant", <<>>)>>],
                        agent_store)
          ELSE SyncMemory(r, agent_store)
       /\ fb' = mutated(fb, rec'.user_id, rec'.memory_payload)
       /\ UNCHANGED <<policies, audit_logs, clock>>

\* the answers of the Backboard client so far, the one just received included
Answered(outcome) == [rec EXCEPT !.answers = Append(@, outcome)]

\* a timed-out selection answered as an empty cart and recorded
DecisionTimeout_empty_cart(r, store) ==
    Respond(r, db_insert_session(store, r.user_id, NotJson, "", r.inventory_filtered, clock),
            RecommendOk(NoMatchCart, ""))

\* decision_obj is None: the selection is not tried again
DecisionTimeout(r, store) ==
    Respond(r, store, RecommendError(502, "Backboard decision timed out"))

\* startup(): the answer of client.create_assistant
CreateAssistantReturns(outcome, assistant_id) ==
    /\ rec.pc = "create_assistant"
    /\ CASE outcome = "api_error" ->
              BackboardError(Answered(outcome), agent_store, "create_assistant")
         [] outcome = "no_id" ->
              Respond(Answered(outcome), agent_store,
                      RecommendError(502, "Backboard create_assistant returned no assistant_id"))
         [] OTHER ->
              SyncMemory(Answered(outcome),
                         [agent_store EXCEPT !.assistant_id = Some(assistant_id)])
    /\ fb' = mutated(fb, rec'.user_id, rec'.memory_payload)
    /\ UNCHANGED <<policies, audit_logs, clock, request>>

\* _ensure_backboard_memory: the answer of client.update_memory
UpdateMemoryReturns(outcome) ==
    /\ rec.pc = "update_memory"
    /\ CASE outcome = "api_error" ->
              BackboardError(Answered(outcome), agent_store, "update_memory")
         [] outcome = "not_found" ->
              Continue([Answered(outcome) EXCEPT !.pc = "add_memory",
                                   !.calls = Append(@, Call("add_memory",
                                                            rec.memory_payload))],
                       agent_store)
         [] OTHER ->
              SelectInventory([Answered(outcome) EXCEPT !.aliased = TRUE],
                              db_set_user_memory(agent_store, rec.user_id,
                                                 rec.memory_payload, rec.existing_id))
    /\ fb' = IF outcome = "ok" THEN after_set(fb, rec) ELSE fb
    /\ UNCHANGED <<policies, audit_logs, clock, request>>

\* _ensure_backboard_memory: the answer of client.add_memory
AddMemoryReturns(outcome, memory_id) ==
    /\ rec.pc = "add_memory"
    /\ CASE outcome = "api_error" ->
              BackboardError(Answered(outcome), agent_store, "add_memory")
         [] outcome = "no_id" ->
              Respond(Answered(outcome), agent_store,
                      RecommendError(502, "Backboard add_memory returned no memory_id"))
         [] OTHER ->
              SelectInventory([Answered(outcome) EXCEPT !.aliased = TRUE],
                              db_set_user_memory(agent_store, rec.user_id,
                                                 rec.memory_payload, Some(memory_id)))
    /\ fb' = IF outcome = "id" THEN after_set(fb, rec) ELSE fb
    /\ UNCHANGED <<policies, audit_logs, clock, request>>

\* the answer of client.create_thread; the decision prompt is sent next
CreateThreadReturns(outcome) ==
    /\ rec.pc = "create_thread"
    /\ CASE outcome = "api_error" ->
              BackboardError(Answered(outcome), agent_store, "create_thread")
         [] outcome = "no_id" ->
              Respond(Answered(outcome), agent_store,
                      RecommendError(502, "Backboard create_thread returned no thread_id"))
         [] OTHER ->
              Continue([Answered(outcome) EXCEPT
                          !.pc = "decision",
                          !.calls = Append(@,
                              Call("add_message decision",
                                   [intent |-> intent_of(rec.req),
                                    max_total |-> rec.budget,
                                    avoid |-> rec.avoid_norm,
                                    prefer_brands |-> rec.memory_payload.preferred_brands,
                                    prefer_tags |-> rec.memory_payload.preferred_tags,
                                    prefer_items |-> top_kept(rec.memory_payload.kept_items),
                                    inventory |-> rec.inventory_filtered]))],
                       agent_store)
    /\ UNCHANGED <<policies, audit_logs, clock, request, fb>>

ExplainCall(r) ==
    Call("add_message explanation",
         [intent |-> intent_of(r.req), max_total |-> r.budget, avoid |-> r.avoid_norm])

\* the answer of the decision message: a timeout (None), an error of the
\* client, or the content of the answer
DecisionReturns(outcome, content) ==
    /\ rec.pc = "decision"
    /\ CASE outcome = "api_error" ->
              BackboardError(Answered(outcome), agent_store, "add_message decision")
         [] outcome = "timeout" -> DecisionTimeout(Answered(outcome), agent_store)
         [] OTHER ->
              Continue([Answered(outcome) EXCEPT !.pc = "explanation",
                                   !.decision_content = content,
                                   !.attempt = 1,
                                   !.calls = Append(@, ExplainCall(rec))],
                       agent_store)
    /\ UNCHANGED <<policies, audit_logs, clock, request, fb>>

\* the answer of an explanation message: after a first timeout the message
\* is sent once more, after a second the fallback text is built
ExplanationReturns(outcome, text) ==
    /\ rec.pc = "explanation"
    /\ CASE outcome = "api_error" ->
              BackboardError(Answered(outcome), agent_store,
                             IF rec.attempt = 1 THEN "add_message explanation"
                             ELSE "add_message explanation retry")
         [] outcome = "timeout" /\ rec.attempt = 1 ->
              Continue([Answered(outcome) EXCEPT !.attempt = 2,
                                   !.calls = Append(@, ExplainCall(rec))],
                       agent_store)
         [] outcome = "timeout" /\ rec.attempt # 1 ->
              IF fallback_raises(rec.decision_content)
              THEN Respond(Answered(outcome), agent_store,
                           RecommendError(500, "AttributeError"))
              ELSE Finish(Answered(outcome), agent_store,
                          fallback_explanation(rec.decision_content, rec.budget,
                                               rec.avoid_norm))
         [] OTHER ->
              Finish(Answered(outcome), agent_store, [fallback |-> FALSE, text |-> text])
    /\ UNCHANGED <<policies, audit_logs, clock, request, fb>>

----------------------------------------------------------------------------
(* api/agent.py: POST /agent/feedback.  The route writes the memory and   *)
(* the correction before its first await.                                 *)

\* _ensure_backboard_memory up to its first await: update_memory when the
\* stored document has a memory id, else add_memory
EnsureCall(f, store) ==
    LET mem_doc == store.memory[f.user_id]
        existing_id == IF IsNone(mem_doc) THEN None ELSE mem_doc[1].backboard_memory_id
        op == IF IsNone(existing_id) \/ existing_id[1] = "" THEN "add_memory"
              ELSE "update_memory"
    IN [f EXCEPT !.pc = op, !.existing_id = existing_id,
                 !.calls = Append(@, Call(op, f.memory_payload))]

FeedbackAnswered(outcome) == [fb EXCEPT !.answers = Append(@, outcome)]

FeedbackRaises(f, status, message) ==
    [f EXCEPT !.pc = "done", !.response = FeedbackError(status, message)]

\* record_feedback up to its first await; each value the route computes is
\* bound once
FeedbackStart(req) ==
    LET user_id == req.user_id
        mem_doc == agent_store.memory[user_id]
        stored == IF IsNone(mem_doc) THEN default_memory(FeedbackMaxTotal)
                  ELSE mem_doc[1].memory
        given == IF IsNone(req.kept_items) THEN <<>>
                 ELSE strip_nonblank(req.kept_items[1])
        existing_backboard_id == IF IsNone(mem_doc) THEN None
                                 ELSE mem_doc[1].backboard_memory_id
        f == [IdleFeedback EXCEPT !.req = req, !.user_id = user_id]
    IN /\ fb.pc \in {"idle", "done"}
       /\ \E rejected \in {strip_nonblank(req.rejected_items)},
             latest \in {db_get_latest_session(agent_store, user_id)} :
          IF given = <<>> /\ ~IsNone(latest) /\ inference_raises(latest[1].cart)
          THEN /\ fb' = FeedbackRaises(f, 500, "AttributeError")
               /\ UNCHANGED <<agent_store, rec>>
          ELSE \E kept \in {kept_of(req, rejected, latest)} :
               \E memory_payload \in
                      {derive_from_items(stored, kept, rejected,
                                         IF IsNone(latest) THEN None
                                         ELSE Some(latest[1].inventory))} :
               \E store \in
                      {db_insert_correction(
                           db_set_user_memory(agent_store, user_id, memory_payload,
                                              existing_backboard_id),
                           user_id, rejected, kept, req.reason, clock)} :
               \E g \in {[f EXCEPT !.memory_payload = memory_payload,
                                   !.aliased = TRUE,
                                   !.kept = kept, !.rejected = rejected]} :
                  /\ agent_store' = store
                  /\ rec' = mutated(rec, user_id, memory_payload)
                  /\ fb' = IF IsNone(agent_store.assistant_id)
                            THEN [g EXCEPT !.pc = "create_assistant",
                                           !.calls = <<Call("create_assistant", <<>>)>>]
                            ELSE EnsureCall(g, store)
       /\ UNCHANGED <<policies, audit_logs, clock, request, response>>

\* startup() of record_feedback: the answer of client.create_assistant
FeedbackCreateAssistantReturns(outcome, assistant_id) ==
    /\ fb.pc = "create_assistant"
    /\ CASE outcome = "api_error" ->
              /\ fb' = FeedbackRaises(FeedbackAnswered(outcome), 502,
                                      <<"Backboard error during", "create_assistant">>)
              /\ UNCHANGED agent_store
         [] outcome = "no_id" ->
              /\ fb' = FeedbackRaises(FeedbackAnswered(outcome), 502,
                                      "Backboard create_assistant returned no assistant_id")
              /\ UNCHANGED agent_store
         [] OTHER ->
              /\ agent_store' = [agent_store EXCEPT !.assistant_id = Some(assistant_id)]
              /\ fb' = EnsureCall(FeedbackAnswered(outcome), agent_store)
    /\ UNCHANGED <<policies, audit_logs, clock, request, response, rec>>

\* the payload written and the answer of the route
FeedbackDone(f, memory_id) ==
    /\ agent_store' = db_set_user_memory(agent_store, f.user_id, f.memory_payload,
                                          memory_id)
    /\ rec' = after_set(rec, f)
    /\ fb' = [f EXCEPT !.pc = "done", !.aliased = TRUE,
                       !.response = FeedbackOk(f.kept, f.rejected)]

\* _ensure_backboard_memory of record_feedback: the answer of update_memory
FeedbackUpdateMemoryReturns(outcome) ==
    /\ fb.pc = "update_memory"
    /\ CASE outcome = "api_error" ->
              /\ fb' = FeedbackRaises(FeedbackAnswered(outcome), 502,
                                      <<"Backboard error during", "update_memory">>)
              /\ UNCHANGED <<agent_store, rec>>
         [] outcome = "not_found" ->
              /\ fb' = [FeedbackAnswered(outcome) EXCEPT
                           !.pc = "add_memory",
                           !.calls = Append(@, Call("add_memory", fb.memory_payload))]
              /\ UNCHANGED <<agent_store, rec>>
         [] OTHER ->
              FeedbackDone(FeedbackAnswered(outcome), fb.existing_id)
    /\ UNCHANGED <<policies, audit_logs, clock, request, response>>

\* _ensure_backboard_memory of record_feedback: the answer of add_memory
FeedbackAddMemoryReturns(outcome, memory_id) ==
    /\ fb.pc = "add_memory"
    /\ CASE outcome = "api_error" ->
              /\ fb' = FeedbackRaises(FeedbackAnswered(outcome), 502,
                                      <<"Backboard error during", "add_memory">>)
              /\ UNCHANGED <<agent_store, rec>>
         [] outcome = "no_id" ->
              /\ fb' = FeedbackRaises(FeedbackAnswered(outcome), 502,
                                      "Backboard add_memory returned no memory_id")
              /\ UNCHANGED <<agent_store, rec>>
         [] OTHER -> FeedbackDone(FeedbackAnswered(outcome), Some(memory_id))
    /\ UNCHANGED <<policies, audit_logs, clock, request, response>>

----------------------------------------------------------------------------
(* Specifications *)

TotalEvents == Len(audit_logs[DEFAULT_DEMO_USER]) + Len(audit_logs["alice"])

\* The whole system: the policy routes are called by the demo user (no
\* cookie), the check by both users; at most MaxAudit events are logged.
Next ==
    \/ GetUserPolicy(None)
    \/ \E update \in PolicyUpdates : UpdateUserPolicy(None, update)
    \/ ResetPolicy(None)
    \/ \E cookie \in Cookies, req \in SystemRequests, event_id \in EventIds :
           /\ TotalEvents < MaxAudit
           /\ CheckAuthority(cookie, req, event_id)

Spec == Init /\ [][Next]_vars

\* The rules of the check: any sequence of policy operations of one user,
\* then one check out of RuleRequests against the policy so reached.  The
\* verdict of a check reads the policy and the request only, never the log.
NoCheckYet == audit_logs[DEFAULT_DEMO_USER] = <<>>

NextRules ==
    \/ NoCheckYet /\ GetUserPolicy(None)
    \/ \E update \in RulePolicyUpdates : NoCheckYet /\ UpdateUserPolicy(None, update)
    \/ NoCheckYet /\ ResetPolicy(None)
    \/ \E req \in RuleRequests : NoCheckYet /\ CheckAuthority(None, req, "evt_a")

SpecRules == Init /\ [][NextRules]_vars

\* The policy routes alone: any sequence of GET, POST and DELETE /policy by
\* both users, the bodies out of PolicyBodies.
NextPolicy ==
    \/ \E cookie \in Cookies : GetUserPolicy(cookie)
    \/ \E cookie \in Cookies, update \in PolicyBodies : UpdateUserPolicy(cookie, update)
    \/ \E cookie \in Cookies : ResetPolicy(cookie)

SpecPolicy == Init /\ [][NextPolicy]_vars

\* The audit log: checks, manual audit posts and audit reads by both users,
\* policy updates and resets by the demo user, and the clock; at most
\* MaxAudit events are logged.  The event ids play no part in the log's
\* order: a check draws "evt_a" and a manual post "evt_b".
NextAudit ==
    \/ \E cookie \in Cookies :
           /\ TotalEvents < MaxAudit
           /\ CheckAuthority(cookie, AuditCheck, "evt_a")
    \/ \E cookie \in Cookies, event_create \in AuditBodies :
           /\ TotalEvents < MaxAudit
           /\ CreateAuditEvent(cookie, event_create, "evt_b")
    \/ \E cookie \in Cookies, limit \in Limits : GetAuditLog(cookie, limit)
    \/ UpdateUserPolicy(None, AuditPolicyUpdate)
    \/ ResetPolicy(None)
    \/ Tick

SpecAudit == Init /\ [][NextAudit]_vars

\* The operations on the audit log without the moves of the clock: every
\* event carries the first reading.  No operation reads the clock to decide
\* what it writes to the log.
NextAuditOps ==
    \/ \E cookie \in Cookies :
           /\ TotalEvents < MaxAudit
           /\ CheckAuthority(cookie, AuditCheck, "evt_a")
    \/ \E cookie \in Cookies, event_create \in AuditBodies :
           /\ TotalEvents < MaxAudit
           /\ CreateAuditEvent(cookie, event_create, "evt_b")
    \/ \E cookie \in Cookies, limit \in Limits : GetAuditLog(cookie, limit)
    \/ UpdateUserPolicy(None, AuditPolicyUpdate)
    \/ ResetPolicy(None)

SpecAuditOps == Init /\ [][NextAuditOps]_vars

\* The bundle selector: one call of POST /agent/bundle out of BundleRequests.
\* The route reads the request and the catalog only and writes nothing, so a
\* call answers the same whatever was called before it.
NoCallYet == request = NoRequest

NextBundle == \E payload \in BundleRequests : NoCallYet /\ GenerateBundle(payload)

SpecBundle == Init /\ [][NextBundle]_vars

\* The selection algorithm over catalogs with and without a stockQuantity
NextSelect ==
    \E catalog \in SelectCatalogs, payload \in SelectRequests :
        NoCallYet /\ GenerateBundleOver(catalog, payload)

SpecSelect == Init /\ [][NextSelect]_vars

\* The recommend orchestrator: calls of POST /agent/recommend one after the
\* other, each taken through its awaits by the answers of the Backboard
\* client; at most MaxSessions sessions are recorded.
NextRecommend ==
    \/ \E req \in RecommendRequests :
           /\ Len(agent_store.sessions) < MaxSessions
           /\ RecommendStart(req)
    \/ \E outcome \in {"id", "no_id", "api_error"}, id \in AssistantIds :
           CreateAssistantReturns(outcome, id)
    \/ \E outcome \in {"ok", "not_found", "api_error"} : UpdateMemoryReturns(outcome)
    \/ \E outcome \in {"id", "no_id", "api_error"}, id \in MemoryIds :
           AddMemoryReturns(outcome, id)
    \/ \E outcome \in {"id", "no_id", "api_error"} : CreateThreadReturns(outcome)
    \/ \E outcome \in {"content", "timeout", "api_error"}, content \in CartContents :
           DecisionReturns(outcome, content)
    \/ \E outcome \in {"content", "timeout", "api_error"}, text \in ExplanationTexts :
           ExplanationReturns(outcome, text)

SpecRecommend == Init /\ [][NextRecommend]_vars

\* Both routes of api/agent.py: one call of POST /agent/bundle, or calls of
\* POST /agent/recommend as in SpecRecommend.
NextAgent ==
    \/ \E payload \in BundleRequests :
           NoCallYet /\ rec.pc = "idle" /\ GenerateBundle(payload)
    \/ \E req \in RecommendRequests :
           /\ request.op # "bundle"
           /\ Len(agent_store.sessions) < MaxSessions
           /\ RecommendStart(req)
    \/ \E outcome \in {"id", "no_id", "api_error"}, id \in AssistantIds :
           CreateAssistantReturns(outcome, id)
    \/ \E outcome \in {"ok", "not_found", "api_error"} : UpdateMemoryReturns(outcome)
    \/ \E outcome \in {"id", "no_id", "api_error"}, id \in MemoryIds :
           AddMemoryReturns(outcome, id)
    \/ \E outcome \in {"id", "no_id", "api_error"} : CreateThreadReturns(outcome)
    \/ \E outcome \in {"content", "timeout", "api_error"}, content \in CartContents :
           DecisionReturns(outcome, content)
    \/ \E outcome \in {"content", "timeout", "api_error"}, text \in ExplanationTexts :
           ExplanationReturns(outcome, text)

SpecAgent == Init /\ [][NextAgent]_vars

\* The Feedback Learner: calls of POST /agent/feedback one after the other,
\* on an empty store or on a store the routes have filled; at most
\* MaxFeedback feedback calls are made.
InitLearn ==
    /\ policies = [u \in Users |-> None]
    /\ audit_logs = [u \in Users |-> <<>>]
    /\ clock = 0
    /\ request = NoRequest
    /\ response = NoRequest
    /\ agent_store \in {AgentStore(None, [u \in AgentUsers |-> None], <<>>, <<>>),
                        LearnedStore}
    /\ rec = IdleCall
    /\ fb = IdleFeedback

FeedbackCalls ==
    IF agent_store.corrections # <<>> /\ agent_store.corrections[1].kept = LearnedCalls[1]
    THEN Len(agent_store.corrections) - Len(LearnedCalls)
    ELSE Len(agent_store.corrections)

NextFeedback ==
    \/ \E req \in FeedbackRequests :
           /\ FeedbackCalls < MaxFeedback
           /\ FeedbackStart(req)
    \/ \E outcome \in {"id", "no_id", "api_error"}, id \in AssistantIds :
           FeedbackCreateAssistantReturns(outcome, id)
    \/ \E outcome \in {"ok", "not_found", "api_error"} :
           FeedbackUpdateMemoryReturns(outcome)
    \/ \E outcome \in {"id", "no_id", "api_error"}, id \in MemoryIds :
           FeedbackAddMemoryReturns(outcome, id)

SpecFeedback == InitLearn /\ [][NextFeedback]_vars

\* Feedback, then a recommendation: the feedback calls of a user, each
\* answered by the Backboard client without an error, are followed by one
\* call of POST /agent/recommend.
NextLearn ==
    \/ \E req \in LearnFeedbackRequests :
           /\ rec.pc = "idle"
           /\ FeedbackCalls < MaxFeedback
           /\ FeedbackStart(req)
    \/ \E id \in AssistantIds : FeedbackCreateAssistantReturns("id", id)
    \/ FeedbackUpdateMemoryReturns("ok")
    \/ \E id \in MemoryIds : FeedbackAddMemoryReturns("id", id)
    \/ \E req \in LearnRecommendRequests :
           /\ fb.pc = "done"
           /\ rec.pc = "idle"
           /\ RecommendStart(req)
    \/ \E outcome \in {"ok", "not_found", "api_error"} : UpdateMemoryReturns(outcome)
    \/ \E outcome \in {"id", "no_id", "api_error"}, id \in MemoryIds :
           AddMemoryReturns(outcome, id)
    \/ \E outcome \in {"id", "no_id", "api_error"} : CreateThreadReturns(outcome)
    \/ \E outcome \in {"content", "timeout", "api_error"}, content \in CartContents :
           DecisionReturns(outcome, content)
    \/ \E outcome \in {"content", "timeout", "api_error"}, text \in ExplanationTexts :
           ExplanationReturns(outcome, text)

SpecLearn == InitLearn /\ [][NextLearn]_vars

\* Two requests at once: one call of POST /agent/recommend and one call of
\* POST /agent/feedback of the same user on an empty store; each route runs
\* from an await to the next, in any interleaving.
NextConcurrent ==
    \/ \E req \in LearnRecommendRequests : rec.pc = "idle" /\ RecommendStart(req)
    \/ \E req \in LearnFeedbackRequests : fb.pc = "idle" /\ FeedbackStart(req)
    \/ \E outcome \in {"id", "no_id", "api_error"}, id \in AssistantIds :
           CreateAssistantReturns(outcome, id)
    \/ \E outcome \in {"ok", "not_found", "api_error"} : UpdateMemoryReturns(outcome)
    \/ \E outcome \in {"id", "no_id", "api_error"}, id \in MemoryIds :
           AddMemoryReturns(outcome, id)
    \/ \E outcome \in {"id", "no_id", "api_error"} : CreateThreadReturns(outcome)
    \/ \E outcome \in {"content", "timeout", "api_error"}, content \in CartContents :
           DecisionReturns(outcome, content)
    \/ \E outcome \in {"content", "timeout", "api_error"}, text \in ExplanationTexts :
           ExplanationReturns(outcome, text)
    \/ \E outcome \in {"id", "no_id", "api_error"}, id \in AssistantIds :
           FeedbackCreateAssistantReturns(outcome, id)
    \/ \E outcome \in {"ok", "not_found", "api_error"} :
           FeedbackUpdateMemoryReturns(outcome)
    \/ \E outcome \in {"id", "no_id", "api_error"}, id \in MemoryIds :
           FeedbackAddMemoryReturns(outcome, id)

SpecConcurrent == Init /\ [][NextConcurrent]_vars

----------------------------------------------------------------------------
(* The claims about the authority check.  After a check, request and       *)
(* response hold the call and its answer, and the policy store is the one  *)
(* the check read (the check does not write it).                           *)

Checked == request.op = "check"

CheckUser == get_user_id(request.cookie)

\* the policy in force for the user whose check was answered
InForce == get_policy(policies, CheckUser)

Allowed == ToSet(InForce.allowedCategories)

HasTotal == ~IsNone(request.body.cartTotal)

BudgetViolated == HasTotal /\ request.body.cartTotal[1] > InForce.maxSpend

CategoriesGiven ==
    ~IsNone(request.body.categories) /\ request.body.categories[1] # <<>>

CategoryViolated ==
    CategoriesGiven /\ \E i \in DOMAIN request.body.categories[1] :
                           request.body.categories[1][i] \notin Allowed

ItemsGiven == ~IsNone(request.body.items) /\ request.body.items[1] # <<>>

SomeItemOutside ==
    ItemsGiven /\ \E i \in DOMAIN request.body.items[1] :
                      request.body.items[1][i].category \notin Allowed

\* the items rule is the one reached when no categories are given
ItemsViolated == ~CategoriesGiven /\ SomeItemOutside

ConfirmWanted == InForce.requireConfirm /\ request.body.action = "checkoutStart"

\* f stands for the text of an amount with two decimals, and it is the one
\* nearest to the amount in mills
IsFormatOf(f, mills) ==
    /\ f.frac \in 0..99
    /\ f.whole >= 0
    /\ LET diff == 10 * (100 * f.whole + f.frac) - mills
       IN diff \in -5..5

Mentions(reason, mills) ==
    \E i \in DOMAIN reason.amounts : IsFormatOf(reason.amounts[i], mills)

\* C1: with agentEnabled = false in the policy, every check request is
\* answered BLOCK, whatever its action, cart total, categories and items.
C1_DisabledAlwaysBlocks ==
    (Checked /\ ~InForce.agentEnabled) => response.decision = "BLOCK"

C1_Witness ==
    /\ Checked
    /\ ~InForce.agentEnabled
    /\ request.body.action = "addToCart"
    /\ ~BudgetViolated /\ ~CategoryViolated /\ ~SomeItemOutside
    /\ response.decision = "BLOCK"

\* C4, as claimed: every check whose cart total is above the policy's
\* maxSpend is answered BLOCK with a reason holding both amounts with two
\* decimals.
C4_Original ==
    (Checked /\ BudgetViolated) =>
        /\ response.decision = "BLOCK"
        /\ Mentions(response.reason, request.body.cartTotal[1])
        /\ Mentions(response.reason, InForce.maxSpend)

\* C4, amended: every check whose cart total is above the policy's maxSpend
\* is answered BLOCK, and when the agent is enabled the reason holds the cart
\* total and the limit, each with two decimals.
C4_OverBudgetBlocks ==
    (Checked /\ BudgetViolated) =>
        /\ response.decision = "BLOCK"
        /\ InForce.agentEnabled =>
              /\ Mentions(response.reason, request.body.cartTotal[1])
              /\ Mentions(response.reason, InForce.maxSpend)
              /\ Len(response.reason.amounts) = 2

C4_Witness ==
    /\ Checked /\ BudgetViolated /\ InForce.agentEnabled
    /\ request.body.cartTotal[1] = 150004
    /\ InForce.maxSpend = 100000
    /\ response.reason.amounts = <<[whole |-> 150, frac |-> 0], [whole |-> 100, frac |-> 0]>>

\* C5: with requireConfirm = true, a checkoutStart check that breaks neither
\* the budget nor a category rule is answered BLOCK, never ALLOW; with the
\* agent enabled the reason is the confirmation one.
C5_CheckoutNeedsConfirm ==
    (Checked /\ ConfirmWanted /\ ~BudgetViolated /\ ~CategoryViolated /\ ~ItemsViolated) =>
        /\ response.decision = "BLOCK"
        /\ InForce.agentEnabled => response.reason = ConfirmReason

C5_Witness ==
    /\ Checked /\ ConfirmWanted /\ InForce.agentEnabled
    /\ HasTotal /\ CategoriesGiven /\ ItemsGiven
    /\ ~BudgetViolated /\ ~CategoryViolated /\ ~ItemsViolated
    /\ response.reason = ConfirmReason

\* the template of the reason of the first rule that matches, in the order
\* agent disabled, budget, categories, items, confirmation
FirstMatchTemplate ==
    IF ~InForce.agentEnabled THEN DisabledReason.template
    ELSE IF BudgetViolated THEN BudgetReason(0, 0).template
    ELSE IF CategoryViolated THEN CategoryReason(<<"">>, <<>>).template
    ELSE IF ItemsViolated THEN ItemsReason(<<>>, <<>>).template
    ELSE IF ConfirmWanted THEN ConfirmReason.template
    ELSE DefaultReason.template

NoRuleMatches ==
    /\ InForce.agentEnabled
    /\ ~BudgetViolated /\ ~CategoryViolated /\ ~ItemsViolated /\ ~ConfirmWanted

\* C6: a check is answered with status 200 and a decision ALLOW or BLOCK; the
\* reason is that of the first matching rule in the order agent disabled,
\* budget, categories, items (the rule reached when no categories are given),
\* confirmation; when no rule matches the answer is ALLOW with the default
\* reason, and otherwise BLOCK.
C6_FirstMatchWins ==
    Checked =>
        /\ response.status = 200
        /\ response.decision \in {"ALLOW", "BLOCK"}
        /\ response.reason.template = FirstMatchTemplate
        /\ NoRuleMatches => (response.decision = "ALLOW" /\ response.reason = DefaultReason)
        /\ ~NoRuleMatches => response.decision = "BLOCK"

C6_Witness ==
    /\ Checked /\ InForce.agentEnabled
    /\ BudgetViolated /\ CategoryViolated /\ SomeItemOutside /\ ConfirmWanted
    /\ response.reason.template = BudgetReason(0, 0).template

C6_WitnessAllow ==
    Checked /\ NoRuleMatches /\ HasTotal /\ CategoriesGiven /\ ItemsGiven
            /\ response.decision = "ALLOW"

\* the first category of the request, in request order, that is not allowed
FirstOutside(categories) ==
    LET i == CHOOSE i \in DOMAIN categories :
                 /\ categories[i] \notin Allowed
                 /\ \A j \in 1..(i - 1) : categories[j] \in Allowed
    IN categories[i]

\* C7: with the agent enabled and the budget respected, a check whose
\* categories hold a category outside policy.allowedCategories is answered
\* BLOCK and the reason names the first such category in request order (and
\* lists the allowed categories).
C7_UnauthorizedCategoryBlocks ==
    (Checked /\ InForce.agentEnabled /\ ~BudgetViolated /\ CategoryViolated) =>
        /\ response.decision = "BLOCK"
        /\ response.reason.names = <<FirstOutside(request.body.categories[1])>>
        /\ response.reason.allowed = InForce.allowedCategories

C7_Witness ==
    /\ Checked /\ InForce.agentEnabled /\ ~BudgetViolated
    /\ request.body.categories = Some(<<"toys", "books">>)
    /\ "books" \notin Allowed
    /\ response.reason.names = <<"toys">>

C7_WitnessSecond ==
    /\ Checked /\ InForce.agentEnabled /\ ~BudgetViolated
    /\ request.body.categories = Some(<<"books", "toys">>)
    /\ "books" \in Allowed
    /\ response.reason.names = <<"toys">>

RECURSIVE OutsideAllowed(_)
OutsideAllowed(items) ==
    IF items = <<>> THEN <<>>
    ELSE (IF Head(items).category \in Allowed THEN <<>> ELSE <<Head(items)>>)
         \o OutsideAllowed(Tail(items))

\* the items rule is reached: rules 1, 2 and 3 did not take the request
ItemsRuleApplied ==
    InForce.agentEnabled /\ ~BudgetViolated /\ ~CategoriesGiven /\ ItemsGiven

\* C8: the items rule acts only when no categories are given (with
\* categories given no blockedItems are returned); when it is reached it
\* blocks exactly when an item's category is outside the allowed set, the
\* returned blockedItems are all such items in request order, and the reason
\* names the titles of the first three of them.
C8_ItemsRule ==
    Checked =>
        /\ (~IsNone(response.blockedItems)
              \/ response.reason.template = ItemsReason(<<>>, <<>>).template)
           => ItemsRuleApplied
        /\ (ItemsRuleApplied /\ SomeItemOutside) =>
              LET outside == OutsideAllowed(request.body.items[1])
              IN /\ response.decision = "BLOCK"
                 /\ response.blockedItems = Some(outside)
                 /\ response.reason.names =
                        [i \in 1..(IF Len(outside) < 3 THEN Len(outside) ELSE 3) |->
                            outside[i].title]
        /\ (ItemsRuleApplied /\ ~SomeItemOutside) =>
              /\ IsNone(response.blockedItems)
              /\ response.decision = "BLOCK" <=> ConfirmWanted

C8_Witness ==
    /\ Checked /\ ItemsRuleApplied
    /\ ~IsNone(response.blockedItems)
    /\ Len(response.blockedItems[1]) = 4
    /\ Len(request.body.items[1]) = 5
    /\ Len(response.reason.names) = 3

C8_WitnessCategoriesGiven ==
    /\ Checked /\ InForce.agentEnabled /\ ~BudgetViolated
    /\ CategoriesGiven /\ ~CategoryViolated /\ SomeItemOutside
    /\ IsNone(response.blockedItems)
    /\ response.decision = "ALLOW"

----------------------------------------------------------------------------
(* The claims about the audit log written by the check *)

LastOf(log) == log[Len(log)]

\* C2: every check, whether it decides ALLOW or BLOCK, appends exactly one
\* event to the log of the user who asked, in the step that produces the
\* response; the events already logged and the other users' logs stay as
\* they were; the response's auditEventId is the id of the appended event and
\* the stored decision and reason are the returned ones.
C2_OneEventPerCheck ==
    [][request'.op = "check" =>
          LET u == get_user_id(request'.cookie)
              before == audit_logs[u]
              after == audit_logs'[u]
          IN /\ response'.op = "check"
             /\ Len(after) = Len(before) + 1
             /\ SubSeq(after, 1, Len(before)) = before
             /\ \A v \in Users \ {u} : audit_logs'[v] = audit_logs[v]
             /\ LastOf(after).userId = u
             /\ LastOf(after).id = response'.auditEventId
             /\ LastOf(after).decision = response'.decision
             /\ LastOf(after).reason = response'.reason
             /\ LastOf(after).action = request'.body.action]_vars

C2_Witness ==
    /\ Checked
    /\ response.decision = "ALLOW"
    /\ Len(audit_logs[CheckUser]) = 2
    /\ audit_logs[CheckUser][1].decision = "BLOCK"
    /\ audit_logs[CheckUser][2].decision = "ALLOW"
    /\ audit_logs[CheckUser][2].id = response.auditEventId
    /\ audit_logs[CheckUser][1].id # response.auditEventId

\* C3: the policySnapshot stored with an event (and returned) is the policy
\* the store held for the user when the check was decided, and no later step
\* (POST /policy, DELETE /policy, the migration of GET /policy, another
\* check) changes the snapshot of an event already logged.
C3_SnapshotIsolation ==
    [][/\ request'.op = "check" =>
             LET u == get_user_id(request'.cookie)
             IN /\ Len(audit_logs'[u]) > 0
                /\ LastOf(audit_logs'[u]).policySnapshot = get_policy(policies, u)
                /\ response'.policySnapshot = get_policy(policies, u)
       /\ \A u \in Users : \A i \in DOMAIN audit_logs[u] :
             /\ i \in DOMAIN audit_logs'[u]
             /\ audit_logs'[u][i].policySnapshot = audit_logs[u][i].policySnapshot]_vars

\* an event logged under a policy that POST /policy has since replaced
C3_Witness ==
    /\ request.op = "updatePolicy"
    /\ response.status = 200
    /\ Len(audit_logs[DEFAULT_DEMO_USER]) > 0
    /\ audit_logs[DEFAULT_DEMO_USER][1].policySnapshot.agentEnabled
    /\ ~get_policy(policies, DEFAULT_DEMO_USER).agentEnabled

C3_WitnessReset ==
    /\ request.op = "resetPolicy"
    /\ Len(audit_logs[DEFAULT_DEMO_USER]) > 0
    /\ audit_logs[DEFAULT_DEMO_USER][1].policySnapshot
          # get_policy(policies, DEFAULT_DEMO_USER)

C3_WitnessMigrated ==
    /\ request.op = "getPolicy"
    /\ Len(audit_logs[DEFAULT_DEMO_USER]) > 0
    /\ audit_logs[DEFAULT_DEMO_USER][1].policySnapshot.allowedCategories
          = <<"office", "electronics">>
    /\ get_policy(policies, DEFAULT_DEMO_USER).allowedCategories = ALL_ALLOWED_CATEGORIES

----------------------------------------------------------------------------
(* The claims about the bundle selector.  After a call, request holds the  *)
(* body sent to POST /agent/bundle and response the answer to it.          *)

\* a body that passed validation was handed to generate_bundle
BundleCalled == request.op = "bundle" /\ BundleRequestValid(request.body)

BundleReturned == BundleCalled /\ response.status = 200

RECURSIVE SumOfPrices(_)
SumOfPrices(items) ==
    IF items = <<>> THEN 0 ELSE Head(items).price + SumOfPrices(Tail(items))

\* the stock left of a returned item once the cart's reservation is taken off
ItemInStock(item, cartItems) ==
    /\ ~IsNone(item.stockQuantity)
    /\ item.stockQuantity[1] - cart_quantity(cartItems, item.id) > 0

ItemAllowed(item, allowedCategories) ==
    \E i \in DOMAIN allowedCategories :
        Lower(Strip(item.category)) = Lower(Strip(allowedCategories[i]))

\* C9: every call of generate_bundle returns a bundle whose subtotal is the
\* sum of the prices of its items and is at most the maxSpend of the request.
C9_SubtotalIsSumWithinBudget ==
    BundleCalled =>
        /\ response.status = 200
        /\ response.subtotal = SumOfPrices(response.items)
        /\ response.subtotal <= request.body.maxSpend

\* C10: every call of generate_bundle returns a bundle none of whose products
\* has a category (trimmed, case ignored) outside allowedCategories or has a
\* stockQuantity that, less the quantity reserved for it in cartItems, is 0
\* or less.
C10_OnlyAllowedAndInStock ==
    BundleCalled =>
        /\ response.status = 200
        /\ \A i \in DOMAIN response.items :
               /\ ItemAllowed(response.items[i], request.body.allowedCategories)
               /\ ItemInStock(response.items[i], request.body.cartItems)

\* What the route does instead on the catalog of api/shopify.py: it answers
\* an empty bundle when the agent is off or no product has an allowed type,
\* and fails on reading stockQuantity in every other case.
BundleOutcome ==
    BundleCalled =>
        IF request.body.agentEnabled
           /\ \E i \in DOMAIN PRODUCTS :
                  ItemAllowed([category |-> PRODUCTS[i].productType],
                              request.body.allowedCategories)
        THEN response.status = 500 /\ response.raised = "AttributeError"
        ELSE BundleReturned /\ response.items = <<>> /\ response.subtotal = 0

\* a validated body with the agent enabled: the selection is to run
SelectionCalled == BundleCalled /\ request.body.agentEnabled

\* the catalog products that pass the category and stock filter of a request
Candidates(catalog, payload) ==
    SelectSeq(catalog,
              LAMBDA p : /\ category_allowed(p, payload)
                         /\ HasAttr(p, "stockQuantity")
                         /\ ItemInStock(p, payload.cartItems))

Min(a, b) == IF a < b THEN a ELSE b

\* C11: every call of generate_bundle that runs the selection returns a
\* bundle of at most 6 items and of at least min(3, |candidates|) items, the
\* candidates being the catalog products that pass the category and stock
\* filter.
C11_ItemCountBounds ==
    SelectionCalled =>
        /\ response.status = 200
        /\ Len(response.items) <= 6
        /\ Len(response.items) >= Min(3, Len(Candidates(PRODUCTS, request.body)))

\* the candidates in the order score descending, price ascending, id ascending
InScoreOrder(candidates, payload) ==
    sorted(candidates,
           [i \in DOMAIN candidates |-> score_product(candidates[i], payload)])

\* the ids picked by going through the ordered candidates once, taking one
\* exactly when the running subtotal plus its price is within maxSpend
RECURSIVE GreedyIds(_, _, _)
GreedyIds(ordered, subtotal, maxSpend) ==
    IF ordered = <<>> THEN <<>>
    ELSE IF subtotal + Head(ordered).price <= maxSpend
         THEN <<Head(ordered).id>>
              \o GreedyIds(Tail(ordered), subtotal + Head(ordered).price, maxSpend)
         ELSE GreedyIds(Tail(ordered), subtotal, maxSpend)

\* C12: every call of generate_bundle that runs the selection returns the
\* candidates picked greedily in the order highest score, lowest price, id,
\* a candidate being added exactly when subtotal + price <= maxSpend when it
\* is considered (up to the limit of 6 items).
C12_GreedyInScoreOrder ==
    SelectionCalled =>
        /\ response.status = 200
        /\ [i \in DOMAIN response.items |-> response.items[i].id]
             = Take(GreedyIds(InScoreOrder(Candidates(PRODUCTS, request.body),
                                           request.body),
                              0, request.body.maxSpend), 6)

----------------------------------------------------------------------------
(* The claims about the recommend orchestrator.  rec.calls lists the calls *)
(* made to the Backboard client by the call in progress or just answered,  *)
(* rec.answers what the client answered to each of them, in order.         *)

RecommendCalled == request.op = "recommend"

RecommendAnswered == RecommendCalled /\ rec.pc = "done"

\* the number of calls of an operation made by the recommend call
CallsOf(op) == Cardinality({i \in DOMAIN rec.calls : rec.calls[i].op = op})

\* the answers received to the calls of an operation, in order
AnswersTo(op) ==
    LET at == SelectSeq([i \in DOMAIN rec.answers |-> i],
                        LAMBDA i : rec.calls[i].op = op)
    IN [k \in DOMAIN at |-> rec.answers[at[k]]]

\* no thread was opened and no cart or explanation was asked of the reasoner
NoReasonerCall ==
    /\ CallsOf("create_thread") = 0
    /\ CallsOf("add_message decision") = 0
    /\ CallsOf("add_message explanation") = 0

DisabledAnswer ==
    /\ response.status = 200
    /\ response.cart.items = <<>>
    /\ response.cart.total = 0

BundleDisabledAnswer ==
    (BundleCalled /\ ~request.body.agentEnabled) =>
        /\ response.status = 200
        /\ response.items = <<>>
        /\ response.subtotal = 0

\* the recommend request carries agentEnabled=false
DisabledRequested == request.body.agentEnabled = Some(FALSE)

\* C13 as stated: with agentEnabled=false generate_bundle answers the empty
\* bundle with subtotal 0, and every answer of recommend is an empty cart,
\* given without a call to the reasoner.
C13_Original ==
    /\ BundleDisabledAnswer
    /\ (RecommendAnswered /\ DisabledRequested) =>
           DisabledAnswer /\ NoReasonerCall

\* C13: with agentEnabled=false generate_bundle answers the empty bundle with
\* subtotal 0; recommend never opens a thread nor sends the decision or the
\* explanation message, and it answers the empty cart unless the request is
\* refused before the agentEnabled test: 422 for a missing user id, 502 for
\* a failed assistant creation or memory synchronisation.
C13_DisabledShortCircuit ==
    /\ BundleDisabledAnswer
    /\ (RecommendCalled /\ DisabledRequested) => NoReasonerCall
    /\ (RecommendAnswered /\ DisabledRequested) =>
           \/ DisabledAnswer /\ response.cart = DisabledCart
           \/ response.status = 422 /\ user_id_missing(request.body)
           \/ /\ response.status = 502
              /\ rec.answers[Len(rec.answers)] \in {"api_error", "no_id"}
              /\ rec.calls[Len(rec.calls)].op
                    \in {"create_assistant", "update_memory", "add_memory"}

C13_Witness ==
    /\ RecommendAnswered /\ DisabledRequested
    /\ DisabledAnswer
    /\ CallsOf("update_memory") = 1

C13_WitnessBundle ==
    /\ BundleCalled /\ ~request.body.agentEnabled
    /\ request.body.allowedCategories = <<"books">>
    /\ response.status = 200

C13_WitnessRefused ==
    RecommendAnswered /\ DisabledRequested /\ response.status = 502

ExplanationAnswers == AnswersTo("add_message explanation")

BothExplanationsTimedOut ==
    ExplanationAnswers = <<"timeout", "timeout">>

LastSession == agent_store.sessions[Len(agent_store.sessions)]

\* C19: recommend sends the explanation message at most twice, the second
\* time only after the first timed out; when both time out the request is
\* answered 200 with the selected cart and the fallback explanation, and the
\* session is recorded.
C19_ExplanationRetryThenFallback ==
    RecommendCalled =>
        /\ CallsOf("add_message explanation") <= 2
        /\ CallsOf("add_message explanation") = 2 => ExplanationAnswers[1] = "timeout"
        /\ (RecommendAnswered /\ BothExplanationsTimedOut) =>
               /\ response.status = 200
               /\ response.cart = rec.decision_content
               /\ response.explanation.fallback
               /\ agent_store.sessions # <<>>
               /\ LastSession.user_id = rec.user_id
               /\ LastSession.cart = response.cart
               /\ LastSession.explanation = response.explanation

\* the step in which the answer to the decision message is a timeout
DecisionTimesOut ==
    /\ rec.pc = "decision"
    /\ rec'.answers = Append(rec.answers, "timeout")

\* C20: when the decision message of recommend times out the request is
\* answered with the error 502 "Backboard decision timed out": the decision
\* message was sent once, no explanation message is sent, the answer holds
\* no cart and no session is recorded.
C20_SelectionTimeoutFails ==
    [][DecisionTimesOut =>
          /\ rec'.pc = "done"
          /\ response'.status = 502
          /\ response'.message = "Backboard decision timed out"
          /\ "cart" \notin DOMAIN response'
          /\ Cardinality({i \in DOMAIN rec'.calls :
                              rec'.calls[i].op = "add_message decision"}) = 1
          /\ \A i \in DOMAIN rec'.calls : rec'.calls[i].op # "add_message explanation"
          /\ agent_store'.sessions = agent_store.sessions]_vars

C20_Witness ==
    /\ RecommendAnswered
    /\ rec.calls # <<>>
    /\ rec.calls[Len(rec.calls)].op = "add_message decision"
    /\ rec.answers[Len(rec.answers)] = "timeout"
    /\ Len(agent_store.sessions) = 1

----------------------------------------------------------------------------
(* Claims about the policy routes *)

\* the policy the store holds for a user, the defaults when it holds none
StoredPolicy(store, user_id) ==
    IF IsNone(store[user_id]) THEN DEFAULT_POLICY ELSE store[user_id][1]

\* the case-folded set of a category list of a POST body
FoldedSet(categories) ==
    {Lower(Strip(categories[i])) : i \in DOMAIN categories} \ {""}

\* the last request was a POST /policy that carried a category list and was
\* accepted
PostAccepted ==
    /\ request.op = "updatePolicy"
    /\ response.status = 200
    /\ ~IsNone(request.body.allowedCategories)

\* this step is a GET /policy of the user of the last request
GetFollows ==
    /\ request'.op = "getPolicy"
    /\ get_user_id(request'.cookie) = get_user_id(request.cookie)

ReturnsPolicy ==
    /\ response.op \in {"getPolicy", "updatePolicy", "resetPolicy"}
    /\ response.status = 200

\* the accepted POST /policy carried a list that normalizes to the empty one
EmptyListSubmitted ==
    /\ PostAccepted
    /\ FoldedSet(request.body.allowedCategories[1]) = {}

\* C15: after any sequence of GET, POST and DELETE /policy the policy stored
\* for a user and every policy returned have a non-empty allowedCategories
\* list, and an empty list submitted is answered and stored as the full
\* category list.
C15_AllowedCategoriesNonEmpty ==
    /\ \A u \in Users :
          ~IsNone(policies[u]) => policies[u][1].allowedCategories # <<>>
    /\ ReturnsPolicy => response.policy.allowedCategories # <<>>
    /\ EmptyListSubmitted =>
          /\ response.policy.allowedCategories = ALL_ALLOWED_CATEGORIES
          /\ policies[response.userId] # None
          /\ policies[response.userId][1].allowedCategories = ALL_ALLOWED_CATEGORIES

C15_Witness ==
    /\ EmptyListSubmitted
    /\ request.body.allowedCategories = Some(<<>>)
    /\ response.policy.allowedCategories = ALL_ALLOWED_CATEGORIES

C15_WitnessBlanks ==
    /\ EmptyListSubmitted
    /\ request.body.allowedCategories = Some(<<"  ", "">>)

\* C16: a POST /policy leaves every field its body omits at the value the
\* user's policy had before, leaves the policies of the other users and the
\* audit log alone, and a rejected one leaves the whole store unchanged.
C16_UpdateFrame ==
    [][request'.op = "updatePolicy" =>
          LET body == request'.body
              user_id == get_user_id(request'.cookie)
              before == StoredPolicy(policies, user_id)
              after == StoredPolicy(policies', user_id)
          IN /\ IsNone(body.maxSpend) => after.maxSpend = before.maxSpend
             /\ IsNone(body.allowedCategories) =>
                   after.allowedCategories = before.allowedCategories
             /\ IsNone(body.agentEnabled) => after.agentEnabled = before.agentEnabled
             /\ IsNone(body.requireConfirm) =>
                   after.requireConfirm = before.requireConfirm
             /\ response'.status # 200 => policies' = policies
             /\ \A u \in Users \ {user_id} : policies'[u] = policies[u]
             /\ audit_logs' = audit_logs]_vars

\* an accepted update that names the categories only, on a policy whose
\* other fields an earlier update had moved off the defaults
C16_Witness ==
    /\ request.op = "updatePolicy"
    /\ response.status = 200
    /\ request.body = PolicyUpdate(None, Some(<<" office">>), None, None)
    /\ response.policy = AgentPolicy(100000, <<"office">>, FALSE, TRUE)
    /\ policies[response.userId] = Some(response.policy)

\* a rejected update on a policy an earlier update had stored
C16_WitnessRejected ==
    /\ request.op = "updatePolicy"
    /\ response.status \in {400, 422}
    /\ \E u \in Users : /\ u = get_user_id(request.cookie)
                         /\ ~IsNone(policies[u])
                         /\ policies[u][1].maxSpend = 20000

----------------------------------------------------------------------------
(* Claims about the audit log *)

\* log is the beginning of later
IsPrefix(log, later) ==
    /\ Len(log) <= Len(later)
    /\ SubSeq(later, 1, Len(log)) = log

\* C17: the audit log is append-only: whatever step is taken (a check, a
\* manual audit post, a policy update or reset, an audit read, a move of the
\* clock), every event of a user's log stays in that log, at its place and
\* with all its fields unchanged.
C17_AppendOnly ==
    [][\A u \in Users : IsPrefix(audit_logs[u], audit_logs'[u])]_vars

\* the demo user's log holds a check event and then a manual event, the
\* policy was updated after the check, and the last request read the log
C17_Witness ==
    /\ request.op = "getAudit"
    /\ response.status = 200
    /\ Len(audit_logs[DEFAULT_DEMO_USER]) = 2
    /\ audit_logs[DEFAULT_DEMO_USER][1].actor = "agent"
    /\ audit_logs[DEFAULT_DEMO_USER][1].policySnapshot.maxSpend = DefaultMaxSpend
    /\ audit_logs[DEFAULT_DEMO_USER][2].actor = "user"
    /\ audit_logs[DEFAULT_DEMO_USER][2].policySnapshot.maxSpend = 100000

\* the last request was an accepted read of the audit log
AuditRead ==
    /\ request.op = "getAudit"
    /\ response.status = 200

\* the limit of the read
ReadLimit ==
    IF IsNone(request.limit) THEN DefaultLimit ELSE request.limit[1]

\* the k most recently appended events of a log, the last appended first
MostRecentFirst(log, k) ==
    [i \in 1..k |-> audit_event_of(log[Len(log) + 1 - i])]

\* C18: a read of the audit log with limit L returns the min(L, n) most
\* recently appended events of the user, the most recently appended first.
C18_MostRecentFirst ==
    AuditRead =>
        LET log == audit_logs[response.userId]
        IN /\ response.total = Min(ReadLimit, Len(log))
           /\ response.events = MostRecentFirst(log, Min(ReadLimit, Len(log)))

\* no two events of the user's log carry the same clock reading
DistinctReadings ==
    \A u \in Users : \A i, j \in DOMAIN audit_logs[u] :
        i < j => audit_logs[u][i].ts < audit_logs[u][j].ts

\* the reads whose log holds no two events of one clock reading do return
\* the most recently appended events, most recent first
C18_HoldsForDistinctReadings ==
    DistinctReadings => C18_MostRecentFirst

\* a read with limit 1 of a log of two events of one clock reading
C18_ReadOfEqualReadings ==
    /\ AuditRead
    /\ request.limit = Some(1)
    /\ Len(audit_logs[response.userId]) = 2
    /\ audit_logs[response.userId][1].ts = audit_logs[response.userId][2].ts
    /\ response.events = <<audit_event_of(audit_logs[response.userId][1])>>

----------------------------------------------------------------------------
(* Claims about the inventory filter of recommend *)

\* the request names categories, and no product of it has one of them among
\* its tags
NoProductMatches(req) ==
    LET allowed == {Lower(Strip(c)) : c \in ToSet(req.allowedCategories[1])} \ {""}
    IN /\ ~IsNone(req.allowedCategories)
       /\ allowed # {}
       /\ req.products # <<>>
       /\ \A i \in DOMAIN req.products :
              {Lower(Strip(t)) : t \in ToSet(req.products[i].tags)} \cap allowed = {}

\* C21: when allowedCategories is not empty and no product of the request
\* has a tag in it, recommend does not call the reasoner, and what it
\* answers with status 200 is the "no items match" empty cart.
C21_NoMatchIsExplicit ==
    (RecommendCalled /\ NoProductMatches(request.body)) =>
        /\ NoReasonerCall
        /\ (RecommendAnswered /\ response.status = 200) => response.cart = NoMatchCart

\* the whole inventory of such a request was sent to the reasoner
C21_FallsBackToUnfiltered ==
    /\ RecommendCalled /\ NoProductMatches(request.body)
    /\ rec.calls # <<>>
    /\ rec.calls[Len(rec.calls)].op = "add_message decision"
    /\ rec.calls[Len(rec.calls)].arg.inventory = request.body.products

----------------------------------------------------------------------------
(* The Feedback Learner *)

\* the memory stored for the user, or the default memory of record_feedback
StoredMemory(store) ==
    IF IsNone(store.memory["u1"]) THEN default_memory(FeedbackMaxTotal)
    ELSE store.memory["u1"][1].memory

\* a step of record_feedback that applied the Feedback Learner
FeedbackApplied == Len(agent_store'.corrections) = Len(agent_store.corrections) + 1

Names(counter) == {counter[i].name : i \in DOMAIN counter}

CountOf(counter, name) ==
    LET at == {i \in DOMAIN counter : counter[i].name = name}
    IN IF at = {} THEN 0 ELSE counter[CHOOSE i \in at : TRUE].count

\* every entry of before is in after with a count that is not lower
NoEntryLowerOrGone(before, after) ==
    \A i \in DOMAIN before : CountOf(after, before[i].name) >= before[i].count

\* every entry of before that is still in after has a count that is not
\* lower, and an entry is gone only from a map filled to the cap
NoEntryLowerUnlessEvicted(before, after) ==
    \A i \in DOMAIN before :
        IF before[i].name \in Names(after)
        THEN CountOf(after, before[i].name) >= before[i].count
        ELSE Len(after) = CountsCap

\* C22 as stated: an application of the Feedback Learner leaves no entry of
\* keptItemCounts or rejectedItemCounts with a lower count, and no entry
\* disappears.
C22_Original ==
    [][FeedbackApplied =>
          /\ NoEntryLowerOrGone(StoredMemory(agent_store).kept_items,
                                StoredMemory(agent_store').kept_items)
          /\ NoEntryLowerOrGone(StoredMemory(agent_store).rejected_items,
                                StoredMemory(agent_store').rejected_items)]_vars

\* C22 amended: an application of the Feedback Learner, the second one with
\* the same lists included, leaves no retained entry of keptItemCounts or
\* rejectedItemCounts with a lower count; an entry disappears only when the
\* map holds 80 entries after the application.
C22_CountsNonDecreasing ==
    [][FeedbackApplied =>
          /\ NoEntryLowerUnlessEvicted(StoredMemory(agent_store).kept_items,
                                       StoredMemory(agent_store').kept_items)
          /\ NoEntryLowerUnlessEvicted(StoredMemory(agent_store).rejected_items,
                                       StoredMemory(agent_store').rejected_items)]_vars

\* the feedback calls made on the store, oldest first
Corrections == agent_store.corrections

\* the same lists were applied twice in a row and the name rejected twice
\* is counted twice
C22_Witness ==
    /\ Len(Corrections) >= 2
    /\ Corrections[Len(Corrections)].kept = Corrections[Len(Corrections) - 1].kept
    /\ Corrections[1].kept # LearnedCalls[1]
    /\ Corrections[Len(Corrections)].rejected = <<"Mouse">>
    /\ Corrections[Len(Corrections) - 1].rejected = <<"Mouse">>
    /\ CountOf(StoredMemory(agent_store).rejected_items, "Mouse") = 2

\* "Mouse" kept three times in one call went into a full map and "Desk",
\* kept before, is gone
C22_WitnessEvicted ==
    /\ Len(StoredMemory(agent_store).kept_items) = CountsCap
    /\ CountOf(StoredMemory(agent_store).kept_items, "Mouse") = 3
    /\ CountOf(StoredMemory(agent_store).kept_items, "Desk") = 0
    /\ Corrections[1].kept = LearnedCalls[1]

\* the occurrences of a name in a list
Occurrences(names, name) == Cardinality({i \in DOMAIN names : names[i] = name})

\* the count a name has when the lists of a call are counted, before the cut
Counted(before, names, name) == CountOf(before, name) + Occurrences(names, name)

\* the names the call dropped from the map
Evicted(before, names, after) == (Names(before) \cup ToSet(names)) \ Names(after)

\* no retained entry has a strictly lower count than an evicted one
EvictsLowest(before, names, after) ==
    \A e \in Evicted(before, names, after) : \A i \in DOMAIN after :
        after[i].count >= Counted(before, names, e)

\* (call, position) of the first time a name was given in the lists of the
\* feedback calls
FirstGiven(lists, name) ==
    LET call == CHOOSE i \in DOMAIN lists :
                    /\ name \in ToSet(lists[i])
                    /\ \A j \in DOMAIN lists : name \in ToSet(lists[j]) => i <= j
        at == CHOOSE k \in DOMAIN lists[call] :
                  /\ lists[call][k] = name
                  /\ \A j \in DOMAIN lists[call] : lists[call][j] = name => k <= j
    IN <<call, at>>

\* among equal counts the entry given first in the calls is kept
TiesKeepFirstGiven(before, names, after, lists) ==
    \A e \in Evicted(before, names, after) : \A i \in DOMAIN after :
        after[i].count = Counted(before, names, e)
            => KeyLess(FirstGiven(lists, after[i].name), FirstGiven(lists, e))

\* the place of a name in the map as the call counts it: the entries of the
\* stored map in their order, then the new names in the order given
PlaceCounted(before, names, name) ==
    IF name \in Names(before)
    THEN <<0, CHOOSE i \in DOMAIN before : before[i].name = name>>
    ELSE <<1, CHOOSE k \in DOMAIN names :
                  /\ names[k] = name
                  /\ \A j \in DOMAIN names : names[j] = name => k <= j>>

\* among equal counts the entry that stands first in the counted map is kept
TiesKeepFirstPlaced(before, names, after) ==
    \A e \in Evicted(before, names, after) : \A i \in DOMAIN after :
        after[i].count = Counted(before, names, e)
            => KeyLess(PlaceCounted(before, names, after[i].name),
                       PlaceCounted(before, names, e))

KeptLists(store) == [i \in DOMAIN store.corrections |-> store.corrections[i].kept]

RejectedLists(store) == [i \in DOMAIN store.corrections |-> store.corrections[i].rejected]

\* C23 as stated: each map holds at most 80 entries after a feedback call,
\* no retained entry has a strictly lower count than an evicted one, and
\* among equal counts the entry inserted earlier is kept.
C23_Original ==
    [][FeedbackApplied =>
          LET old == StoredMemory(agent_store)
              new == StoredMemory(agent_store')
              call == agent_store'.corrections[Len(agent_store'.corrections)]
          IN /\ Len(new.kept_items) <= 80
             /\ Len(new.rejected_items) <= 80
             /\ EvictsLowest(old.kept_items, call.kept, new.kept_items)
             /\ EvictsLowest(old.rejected_items, call.rejected, new.rejected_items)
             /\ TiesKeepFirstGiven(old.kept_items, call.kept, new.kept_items,
                                   KeptLists(agent_store'))
             /\ TiesKeepFirstGiven(old.rejected_items, call.rejected,
                                   new.rejected_items, RejectedLists(agent_store'))]_vars

\* C23 amended: each map holds at most 80 entries after a feedback call, no
\* retained entry has a strictly lower count than an evicted one, and among
\* equal counts the entry that stands earlier in the map is kept: the
\* stored map is in descending order of count, the names new in a call
\* stand last in the order given.
C23_CappedEvictingLowest ==
    [][FeedbackApplied =>
          LET old == StoredMemory(agent_store)
              new == StoredMemory(agent_store')
              call == agent_store'.corrections[Len(agent_store'.corrections)]
          IN /\ Len(new.kept_items) <= 80
             /\ Len(new.rejected_items) <= 80
             /\ EvictsLowest(old.kept_items, call.kept, new.kept_items)
             /\ EvictsLowest(old.rejected_items, call.rejected, new.rejected_items)
             /\ TiesKeepFirstPlaced(old.kept_items, call.kept, new.kept_items)
             /\ TiesKeepFirstPlaced(old.rejected_items, call.rejected,
                                    new.rejected_items)]_vars

\* a call rejected "Mouse" on a full map of counts 2: the new entry of count
\* 1 is the one evicted
C23_Witness ==
    /\ Corrections # <<>>
    /\ Corrections[1].kept = LearnedCalls[1]
    /\ Len(Corrections) > Len(LearnedCalls)
    /\ Corrections[Len(Corrections)].rejected = <<"Mouse">>
    /\ Len(StoredMemory(agent_store).rejected_items) = 80
    /\ CountOf(StoredMemory(agent_store).rejected_items, "Mouse") = 0

\* "Desk", given in the first call, is evicted while "Lamp", given in the
\* second call and of equal count, is kept
C23_WitnessLaterKept ==
    /\ C22_WitnessEvicted
    /\ CountOf(StoredMemory(agent_store).kept_items, "Lamp") = 2
    /\ Len(Corrections) = Len(LearnedCalls) + 1

\* the three sets of a memory hold what they held before
SetsGrow(old, new) ==
    /\ old.preferred_brands \subseteq new.preferred_brands
    /\ old.preferred_tags \subseteq new.preferred_tags
    /\ ToSet(old.rejection_patterns) \subseteq ToSet(new.rejection_patterns)

\* a list without a repeated element
NoRepeat(list) == \A i, j \in DOMAIN list : list[i] = list[j] => i = j

\* the trimmed lower-cased forms of the names of a list, blanks left out
Normalized(names) ==
    {Lower(Strip(names[i])) : i \in {j \in DOMAIN names : Strip(names[j]) # ""}}

\* a step of recommend that merged the preferences of its request
PreferencesMerged ==
    /\ rec'.pc \in {"update_memory", "add_memory"}
    /\ rec.pc \in {"idle", "done", "create_assistant"}

\* C26: the stored preferredBrands, preferredTags and rejectionPatterns
\* hold after every step what they held before; after _derive_from_items
\* rejectionPatterns holds the trimmed lower-cased form of every rejected
\* name of the call, each once; the memory the preference merge of
\* recommend produces holds what the stored memory held.
C26_SetsOnlyGrow ==
    [][/\ SetsGrow(StoredMemory(agent_store), StoredMemory(agent_store'))
       /\ FeedbackApplied =>
              /\ Normalized(fb'.req.rejected_items)
                     \subseteq ToSet(StoredMemory(agent_store').rejection_patterns)
              /\ NoRepeat(StoredMemory(agent_store').rejection_patterns)
       /\ PreferencesMerged =>
              SetsGrow(StoredMemory(agent_store), rec'.memory_payload)]_vars

\* "Sony" was rejected by a user with 80 patterns, "lamp" among them, and a
\* recommend call that prefers " logitech" merged it into the stored brands
C26_Witness ==
    /\ Len(Corrections) > Len(LearnedCalls)
    /\ Corrections[1].kept = LearnedCalls[1]
    /\ \E i \in DOMAIN Corrections : Corrections[i].rejected = <<"Sony">>
    /\ {"sony", "lamp", "n78"} \subseteq ToSet(StoredMemory(agent_store).rejection_patterns)
    /\ Len(StoredMemory(agent_store).rejection_patterns) = 81
    /\ rec.pc = "done"
    /\ {"logitech", "IKEA", "Apple"} \subseteq StoredMemory(agent_store).preferred_brands

\* a name rejected in two spellings is one pattern
C26_WitnessOnce ==
    /\ Len(Corrections) = 1
    /\ Corrections[1].rejected = <<"lamp", "Lamp">>
    /\ StoredMemory(agent_store).rejection_patterns = <<"lamp">>

\* the messages recommend sent to the reasoner so far
ReasonerCalls ==
    {i \in DOMAIN rec.calls :
        rec.calls[i].op \in {"add_message decision", "add_message explanation"}}

\* the brands this request prefers, trimmed and lower-cased
PreferredNow ==
    IF IsNone(rec.req.brandPreferences) THEN {}
    ELSE Normalized(rec.req.brandPreferences[1])

\* C24: no avoid list that recommend sends to the reasoner holds a brand of
\* the brandPreferences of the request, trimmed and lower-cased, whatever
\* rejection patterns are stored for the user.
C24_PreferredNeverAvoided ==
    \A i \in ReasonerCalls : ToSet(rec.calls[i].arg.avoid) \cap PreferredNow = {}

\* "sony" is a stored pattern of the user, the request prefers "Sony", and
\* the avoid list sent holds the other patterns
C24_Witness ==
    /\ ReasonerCalls # {}
    /\ "sony" \in ToSet(StoredMemory(agent_store).rejection_patterns)
    /\ PreferredNow = {"sony"}
    /\ \A i \in ReasonerCalls : "lamp" \in ToSet(rec.calls[i].arg.avoid)

----------------------------------------------------------------------------
(* Requests that interleave *)

\* both routes have returned and the feedback was applied
BothReturned ==
    /\ rec.pc = "done"
    /\ fb.pc = "done"
    /\ Corrections # <<>>

\* the counts of one feedback call on a store that held none
CountsOfCall(counter, names) ==
    /\ Names(counter) = ToSet(names)
    /\ \A n \in ToSet(names) : CountOf(counter, n) = Occurrences(names, n)

C25_IncrementLost ==
    /\ BothReturned
    /\ Corrections[1].rejected = <<"lamp", "Lamp">>
    /\ fb.response.status = 200
    /\ StoredMemory(agent_store).rejected_items = <<>>
    /\ StoredMemory(agent_store).kept_items = <<>>

\* the feedback call started after the recommend call had read the stored
\* document: both hold the same dict and no increment is lost
C25_SharedDocument ==
    /\ BothReturned
    /\ rec.aliased /\ fb.aliased
    /\ \E i \in DOMAIN rec.calls : rec.calls[i].op = "update_memory"
    /\ CountsOfCall(StoredMemory(agent_store).rejected_items, Corrections[1].rejected)

\* the create_assistant calls a route has made
CreateCalls(call) ==
    Cardinality({i \in DOMAIN call.calls : call.calls[i].op = "create_assistant"})

\* C30: create_assistant is called at most once by the requests; once an
\* assistant id is stored no request calls it again, also when the requests
\* that found no id run at once; a request calls it at most once.
C30_AssistantCreatedOnce ==
    /\ CreateCalls(rec) + CreateCalls(fb) <= 1
    /\ CreateCalls(rec) <= 1
    /\ CreateCalls(fb) <= 1

\* once an assistant id is stored, no step of a request calls
\* create_assistant
C30_NoCreateOnceStored ==
    [][~IsNone(agent_store.assistant_id) =>
          /\ CreateCalls(rec') <= CreateCalls(rec) \/ rec'.calls = <<>>
          /\ CreateCalls(fb') <= CreateCalls(fb)]_vars

\* a recommend call and a feedback call both found no assistant id, both
\* called create_assistant and both were answered with an id
C30_CreatedTwice ==
    /\ CreateCalls(rec) = 1
    /\ CreateCalls(fb) = 1
    /\ rec.answers # <<>> /\ rec.answers[1] = "id"
    /\ fb.answers # <<>> /\ fb.answers[1] = "id"

----------------------------------------------------------------------------
(* The two passes of the bundle selector *)

\* a bundle was returned for a request over a catalog
SelectReturned ==
    /\ request.op = "bundle" /\ "catalog" \in DOMAIN request
    /\ response.status = 200 /\ request.body.agentEnabled

SelectCandidates == available(request.catalog, request.body)

\* the bundle of the loop over sorted_candidates, before the second loop
FirstPassAlone ==
    first_pass([items |-> <<>>, subtotal |-> 0],
               sorted(SelectCandidates,
                      [i \in DOMAIN SelectCandidates |->
                          score_product(SelectCandidates[i], request.body)]),
               request.body)

\* C27: over a catalog of non-negative prices the loop over sorted_by_price
\* adds no item: every bundle generate_bundle returns, whatever the catalog,
\* budget, preferences and reservations, is the bundle of the loop over
\* sorted_candidates alone, items and subtotal.
C27_SecondPassAddsNothing ==
    SelectReturned =>
        /\ response.items = FirstPassAlone.items
        /\ response.subtotal = FirstPassAlone.subtotal

\* the second loop ran over candidates the first loop had left out, one of
\* them within the budget on its own
C27_Witness ==
    /\ SelectReturned
    /\ Len(response.items) \in 1..2
    /\ \E i \in DOMAIN SelectCandidates :
           /\ SelectCandidates[i].price <= request.body.maxSpend
           /\ \A j \in DOMAIN response.items :
                  response.items[j].id # SelectCandidates[i].id
    /\ response.items = FirstPassAlone.items

\* the second loop ran on an empty bundle: no candidate fits the budget
C27_WitnessNothingFits ==
    /\ SelectReturned
    /\ response.items = <<>>
    /\ SelectCandidates # <<>>

----------------------------------------------------------------------------
(* The category set of the check and the one GET /policy reports *)

\* policy.allowedCategories of the answer GET /policy would give the user of
\* the check now: the stored or default list, expanded when it is a legacy
\* one, normalised, the full list when nothing is left
ReportedCategories ==
    LET normalized_allowed == normalize_categories(Some(InForce.allowedCategories))
        listed == IF should_expand_categories(normalized_allowed)
                  THEN ALL_ALLOWED_CATEGORIES
                  ELSE InForce.allowedCategories
    IN ToSet(OrAll(normalize_categories(Some(listed))))

\* the category rule is the one that decided the check
CategoryRuleReached ==
    Checked /\ InForce.agentEnabled /\ ~BudgetViolated /\ CategoriesGiven

\* C28: a check decided by its category rule blocks exactly when one of the
\* request's categories is outside the allowedCategories that GET /policy
\* would report for the user at that moment.
C28_CheckEnforcesReportedSet ==
    CategoryRuleReached =>
        (response.decision = "BLOCK"
            <=> \E i \in DOMAIN request.body.categories[1] :
                    request.body.categories[1][i] \notin ReportedCategories)

\* a check blocks a category that GET /policy reports as allowed
C28_BlocksReportedCategory ==
    /\ CategoryRuleReached
    /\ response.decision = "BLOCK"
    /\ ToSet(request.body.categories[1]) \subseteq ReportedCategories

\* the two sets differ only while the list in force is a legacy one, which
\* GET /policy would replace by the full list
C28_AgreeUnlessLegacy ==
    (Checked /\ Allowed # ReportedCategories) =>
        /\ Allowed \in LEGACY_CATEGORY_SETS
        /\ ReportedCategories = ToSet(ALL_ALLOWED_CATEGORIES)

----------------------------------------------------------------------------
(* The frame of a disabled recommendation *)

\* a step of a recommend call whose request has agentEnabled = false
DisabledStep == rec'.pc # "idle" /\ rec'.req.agentEnabled = Some(FALSE)

\* what the Feedback Learner wrote is as it was
LearnedUnchanged(old, new) ==
    /\ new.kept_items = old.kept_items
    /\ new.rejected_items = old.rejected_items
    /\ new.rejection_patterns = old.rejection_patterns
    /\ new.preferred_tags = old.preferred_tags

====
